---- MODULE Spec2Model ----
(***************************************************************************)
(* V4-hal: the simulated ("mock") backend of tests/mock_hal.cpp, the CRTP  *)
(* abstraction layer (GpioBase, UartBase) and the POSIX / ESP32 backends.   *)
(*                                                                         *)
(* Which backend is linked is fixed at build time; the model draws it in   *)
(* Init and never changes it.  Every call leaves its observable outcome    *)
(* (return code, out-parameters) in the variable last.                     *)
(***************************************************************************)
EXTENDS Integers, Sequences, FiniteSets, TLC

VARIABLES
  backend,      \* which implementation this build links: "mock", "posix", "esp32"
  mock_gpio,    \* mock_hal.cpp: static struct MockGpioState mock_gpio[MAX_GPIO_PINS]
  gpio_states,  \* platform_posix.cpp: static uint32_t gpio_states, one bit per pin
  gpio_modes,   \* platform_posix.cpp: static uint32_t gpio_modes, one bit per pin
  pin_cfg,      \* history: the mode of each pin's last successful configure
  mock_uart,    \* mock_hal.cpp: static struct MockUartState mock_uart[MAX_UART_PORTS]
  mock_millis_counter,  \* mock_hal.cpp: static uint32_t mock_millis_counter
  mock_micros_counter,  \* mock_hal.cpp: static uint64_t mock_micros_counter
  esp_timer,    \* ESP32: the value esp_timer_get_time() returns, microseconds since boot
  delays,       \* number of calls so far that moved a clock
  posix_clock,  \* POSIX: get_time_ns() - start_time, in whole microseconds (64 bits)
  tx_appends,   \* number of putc/write calls so far that enqueued at least one byte
  rx_pops,      \* number of getc/read calls so far that consumed at least one byte
  tx_accepted,  \* history: per port, the bytes putc/write enqueued since its last open
  rx_injected,  \* history: per port, the bytes the last injection made pending
  rx_delivered, \* history: per port, the bytes getc/read handed out since then
  critical_mutex,   \* platform_posix.cpp: static pthread_mutex_t critical_mutex (its owner)
  critical_spinlock,  \* platform_esp32.cpp: static portMUX_TYPE critical_spinlock (owner, count)
  pc,           \* per execution context, where it is inside the call it is making
  tog,          \* per execution context, the locals of GpioBase::toggle (pin, current)
  uart_heap,    \* POSIX: the UartHandleData objects made by new, by address
  uart_init_flags,  \* platform_esp32.cpp: static bool uart_init_flags[3]
  issued,       \* history: handles returned by open and not closed with HAL_OK since
  closed_ok,    \* history: handles closed with HAL_OK, no open having returned since
  stale,        \* history: whether the handle of the last call was in closed_ok
  uart_fault,   \* history: the undefined behaviour the last call executed, or "none"
  halted,       \* whether the process has been aborted
  uarts,        \* the scoped Uart objects: whether each is alive, its class, its handle_
  open_rets,    \* history: per handle, how often a wrapper's open has returned it
  close_calls,  \* history: per handle, how often a wrapper has passed it to close
  last          \* the last call: its name, arguments, return code, out-parameter

gpioVars == <<mock_gpio, gpio_states, gpio_modes, pin_cfg>>
mockUartVars == <<mock_uart, tx_appends, rx_pops, tx_accepted, rx_injected, rx_delivered>>
mockTimerVars == <<mock_millis_counter, mock_micros_counter>>
timerVars == <<mockTimerVars, esp_timer, delays, posix_clock>>
ctxVars == <<critical_mutex, critical_spinlock, pc, tog>>
handleVars == <<uart_heap, uart_init_flags, issued, closed_ok, stale, uart_fault, halted>>
scopeVars == <<uarts, open_rets, close_calls>>
\* what no call but a wrapper's or a POSIX delay touches
restVars == <<scopeVars, posix_clock>>

vars == <<backend, gpioVars, mockUartVars, timerVars, ctxVars, handleVars, scopeVars, last>>

----------------------------------------------------------------------------
(* Error codes.                                                            *)

\* v4_err values of the simulated backend (v4_hal.h, mock_hal.cpp literals)
InvalidArg == -1
NotInitialized == -2
Timeout == -3
Busy == -4
OutOfBounds == -13

\* hal_error.h: HAL_OK is HAL_ERR_OK; hal_errors.def gives the values
HAL_OK == 0
\* "Invalid parameter": the HAL's code for the InvalidArg kind
HAL_ERR_PARAM == InvalidArg

----------------------------------------------------------------------------
(* GPIO of the simulated backend (tests/mock_hal.cpp).                     *)

MAX_GPIO_PINS == 32

V4_HAL_GPIO_MODE_INPUT == 0
V4_HAL_GPIO_MODE_OUTPUT == 1
V4_HAL_GPIO_MODE_INPUT_PULLUP == 2
V4_HAL_GPIO_MODE_INPUT_PULLDOWN == 3

MockPins == 0 .. (MAX_GPIO_PINS - 1)

\* memset(mock_gpio, 0, sizeof(mock_gpio)), also the zero-initialised statics
MockGpioZero == [p \in MockPins |-> [initialized |-> 0, mode |-> 0, value |-> 0]]

\* spec-level name of a v4_hal_gpio_mode enumerator
MockModeName(m) ==
  CASE m = V4_HAL_GPIO_MODE_INPUT -> "Input"
    [] m = V4_HAL_GPIO_MODE_OUTPUT -> "Output"
    [] m = V4_HAL_GPIO_MODE_INPUT_PULLUP -> "InputPullUp"
    [] m = V4_HAL_GPIO_MODE_INPUT_PULLDOWN -> "InputPullDown"

\* variant: configuring one pin clears all the others
v4_hal_gpio_init_ClearsOthers(g, pin, mode) ==
  IF pin < 0 \/ pin >= MAX_GPIO_PINS
    THEN [st |-> g, ret |-> -13]
    ELSE [st |-> [MockGpioZero EXCEPT ![pin] = [initialized |-> 1, mode |-> mode, value |-> 0]],
          ret |-> 0]

v4_hal_gpio_init(g, pin, mode) ==
  IF pin < 0 \/ pin >= MAX_GPIO_PINS
    THEN [st |-> g, ret |-> -13]
    ELSE [st |-> [g EXCEPT ![pin] = [initialized |-> 1, mode |-> mode, value |-> 0]],
          ret |-> 0]

\* variant: an out-of-range pin is reported as a bad argument
v4_hal_gpio_write_BadCode(g, pin, value) ==
  IF pin < 0 \/ pin >= MAX_GPIO_PINS
    THEN [st |-> g, ret |-> -1]
    ELSE IF g[pin].initialized = 0
      THEN [st |-> g, ret |-> -2]
      ELSE IF g[pin].mode # V4_HAL_GPIO_MODE_OUTPUT
        THEN [st |-> g, ret |-> -1]
        ELSE [st |-> [g EXCEPT ![pin].value = IF value # 0 THEN 1 ELSE 0],
              ret |-> 0]

v4_hal_gpio_write(g, pin, value) ==
  IF pin < 0 \/ pin >= MAX_GPIO_PINS
    THEN [st |-> g, ret |-> -13]
    ELSE IF g[pin].initialized = 0
      THEN [st |-> g, ret |-> -2]
      ELSE IF g[pin].mode # V4_HAL_GPIO_MODE_OUTPUT
        THEN [st |-> g, ret |-> -1]
        ELSE [st |-> [g EXCEPT ![pin].value = IF value # 0 THEN 1 ELSE 0],
              ret |-> 0]

\* variant: the initialized check is missing
v4_hal_gpio_read_NoInitCheck(g, pin, has_out) ==
  IF pin < 0 \/ pin >= MAX_GPIO_PINS
    THEN [ret |-> -13, out |-> <<>>]
    ELSE IF ~has_out
      THEN [ret |-> -1, out |-> <<>>]
      ELSE [ret |-> 0, out |-> <<g[pin].value>>]

\* has_out: whether the caller passed a non-null out_value
v4_hal_gpio_read(g, pin, has_out) ==
  IF pin < 0 \/ pin >= MAX_GPIO_PINS
    THEN [ret |-> -13, out |-> <<>>]
    ELSE IF g[pin].initialized = 0
      THEN [ret |-> -2, out |-> <<>>]
      ELSE IF ~has_out
        THEN [ret |-> -1, out |-> <<>>]
        ELSE [ret |-> 0, out |-> <<g[pin].value>>]

----------------------------------------------------------------------------
(* GPIO of the POSIX backend behind GpioBase (gpio_impl.hpp).              *)

HAL_GPIO_INPUT == 0
HAL_GPIO_INPUT_PULLUP == 1
HAL_GPIO_INPUT_PULLDOWN == 2
HAL_GPIO_OUTPUT == 3
HAL_GPIO_OUTPUT_OD == 4

HAL_GPIO_LOW == 0
HAL_GPIO_HIGH == 1

\* PosixPlatform::max_gpio_pins()
max_gpio_pins == 32

PosixPins == 0 .. (max_gpio_pins - 1)

\* a uint32_t bitmap, bit p held at index p; static initialiser 0
BitmapZero == [p \in 0 .. 31 |-> FALSE]

\* spec-level name of a hal_gpio_mode_t enumerator
HalModeName(m) ==
  CASE m = HAL_GPIO_INPUT -> "Input"
    [] m = HAL_GPIO_INPUT_PULLUP -> "InputPullUp"
    [] m = HAL_GPIO_INPUT_PULLDOWN -> "InputPullDown"
    [] m = HAL_GPIO_OUTPUT -> "Output"
    [] m = HAL_GPIO_OUTPUT_OD -> "OutputOpenDrain"

\* st = [modes |-> gpio_modes, states |-> gpio_states]
PosixPlatform_gpio_mode_impl(st, pin, mode) ==
  IF mode = HAL_GPIO_OUTPUT \/ mode = HAL_GPIO_OUTPUT_OD
    THEN [st |-> [st EXCEPT !.modes[pin] = TRUE], ret |-> HAL_OK]
    ELSE [st |-> [st EXCEPT !.modes[pin] = FALSE], ret |-> HAL_OK]

\* variant: the output-mode check is missing
PosixPlatform_gpio_write_impl_NoModeCheck(st, pin, value) ==
  IF value = HAL_GPIO_HIGH
    THEN [st |-> [st EXCEPT !.states[pin] = TRUE], ret |-> HAL_OK]
    ELSE [st |-> [st EXCEPT !.states[pin] = FALSE], ret |-> HAL_OK]

PosixPlatform_gpio_write_impl(st, pin, value) ==
  IF ~st.modes[pin]
    THEN [st |-> st, ret |-> HAL_ERR_PARAM]
    ELSE IF value = HAL_GPIO_HIGH
      THEN [st |-> [st EXCEPT !.states[pin] = TRUE], ret |-> HAL_OK]
      ELSE [st |-> [st EXCEPT !.states[pin] = FALSE], ret |-> HAL_OK]

PosixPlatform_gpio_read_impl(st, pin) ==
  [ret |-> HAL_OK,
   out |-> <<IF st.states[pin] THEN HAL_GPIO_HIGH ELSE HAL_GPIO_LOW>>]

GpioBase_mode(st, pin, mode) ==
  IF pin < 0 \/ pin >= max_gpio_pins
    THEN [st |-> st, ret |-> HAL_ERR_PARAM]
    ELSE PosixPlatform_gpio_mode_impl(st, pin, mode)

GpioBase_write(st, pin, value) ==
  IF pin < 0 \/ pin >= max_gpio_pins
    THEN [st |-> st, ret |-> HAL_ERR_PARAM]
    ELSE PosixPlatform_gpio_write_impl(st, pin, value)

\* has_out: whether the caller passed a non-null value pointer
GpioBase_read(st, pin, has_out) ==
  IF ~has_out \/ pin < 0 \/ pin >= max_gpio_pins
    THEN [ret |-> HAL_ERR_PARAM, out |-> <<>>]
    ELSE PosixPlatform_gpio_read_impl(st, pin)

\* variant: the comparison is inverted, toggle writes back what it read
ToggleNewVal_Same(current) ==
  IF current = HAL_GPIO_HIGH THEN HAL_GPIO_HIGH ELSE HAL_GPIO_LOW

\* the value toggle writes back, from the value it read
ToggleNewVal(current) ==
  IF current = HAL_GPIO_HIGH THEN HAL_GPIO_LOW ELSE HAL_GPIO_HIGH

GpioBase_toggle(st, pin) ==
  LET r == GpioBase_read(st, pin, TRUE)
  IN  IF r.ret # HAL_OK
        THEN [st |-> st, ret |-> r.ret]
        ELSE GpioBase_write(st, pin, ToggleNewVal(r.out[1]))

----------------------------------------------------------------------------
(* UART of the simulated backend (tests/mock_hal.cpp).                     *)

MAX_UART_PORTS == 4
UART_BUFFER_SIZE == 256

MockPorts == 0 .. (MAX_UART_PORTS - 1)

\* char buf[UART_BUFFER_SIZE], zero-filled
ZeroBuffer == [i \in 0 .. (UART_BUFFER_SIZE - 1) |-> 0]

\* memset(mock_uart, 0, sizeof(mock_uart)), also the zero-initialised statics
MockUartZero ==
  [p \in MockPorts |->
    [initialized |-> 0, baudrate |-> 0,
     tx_buffer |-> ZeroBuffer, tx_count |-> 0,
     rx_buffer |-> ZeroBuffer, rx_count |-> 0, rx_pos |-> 0]]

\* variant: the transmit count survives the open
v4_hal_uart_init_KeepsTx(u, port, baudrate) ==
  IF port < 0 \/ port >= MAX_UART_PORTS
    THEN [st |-> u, ret |-> -13]
    ELSE IF baudrate <= 0
      THEN [st |-> u, ret |-> -1]
      ELSE [st |-> [u EXCEPT ![port].initialized = 1,
                             ![port].baudrate = baudrate,
                             ![port].rx_count = 0,
                             ![port].rx_pos = 0],
            ret |-> 0]

v4_hal_uart_init(u, port, baudrate) ==
  IF port < 0 \/ port >= MAX_UART_PORTS
    THEN [st |-> u, ret |-> -13]
    ELSE IF baudrate <= 0
      THEN [st |-> u, ret |-> -1]
      ELSE [st |-> [u EXCEPT ![port].initialized = 1,
                             ![port].baudrate = baudrate,
                             ![port].tx_count = 0,
                             ![port].rx_count = 0,
                             ![port].rx_pos = 0],
            ret |-> 0]

\* a capacity test that lets one byte too many in
TxFull_OffByOne(ps) == ps.tx_count > UART_BUFFER_SIZE

\* whether the TX buffer of port record ps has no room left
TxFull(ps) == ps.tx_count >= UART_BUFFER_SIZE

\* variant: every byte is stored in the first slot
TxAppend_FirstSlot(ps, c) ==
  [ps EXCEPT !.tx_buffer[0] = c, !.tx_count = ps.tx_count + 1]

\* tx_buffer[tx_count++] = c
TxAppend(ps, c) ==
  [ps EXCEPT !.tx_buffer[ps.tx_count] = c, !.tx_count = ps.tx_count + 1]

\* variant: a full buffer is emptied to take the byte
v4_hal_uart_putc_Drains(u, port, c) ==
  IF port < 0 \/ port >= MAX_UART_PORTS
    THEN [st |-> u, ret |-> -13]
    ELSE IF u[port].initialized = 0
      THEN [st |-> u, ret |-> -2]
      ELSE IF TxFull(u[port])
        THEN [st |-> [u EXCEPT ![port] = TxAppend([u[port] EXCEPT !.tx_count = 0], c)],
              ret |-> 0]
        ELSE [st |-> [u EXCEPT ![port] = TxAppend(u[port], c)], ret |-> 0]

v4_hal_uart_putc(u, port, c) ==
  IF port < 0 \/ port >= MAX_UART_PORTS
    THEN [st |-> u, ret |-> -13]
    ELSE IF u[port].initialized = 0
      THEN [st |-> u, ret |-> -2]
      ELSE IF TxFull(u[port])
        THEN [st |-> u, ret |-> -4]
        ELSE [st |-> [u EXCEPT ![port] = TxAppend(u[port], c)], ret |-> 0]

\* one iteration of the loop of v4_hal_uart_write, for index i;
\* buf is the caller's array, buf[i] of the code being buf[i + 1] here
WriteStep(ps, buf, i) ==
  IF TxFull(ps)
    THEN [ps |-> ps, ret |-> -4]
    ELSE [ps |-> TxAppend(ps, buf[i + 1]), ret |-> 0]

\* iterations lo .. hi - 1 of for (int i = 0; i < len; i++), in order, ended
\* by the first one that returns; the range is halved to keep evaluation shallow
RECURSIVE WriteLoop(_, _, _, _)
WriteLoop(ps, buf, lo, hi) ==
  IF lo >= hi
    THEN [ps |-> ps, ret |-> 0]
    ELSE IF hi = lo + 1
      THEN WriteStep(ps, buf, lo)
      ELSE LET mid == (lo + hi) \div 2
               first == WriteLoop(ps, buf, lo, mid)
           IN  IF first.ret # 0 THEN first ELSE WriteLoop(first.ps, buf, mid, hi)

\* variant: a write that does not fit enqueues nothing
v4_hal_uart_write_AllOrNothing(u, port, has_buf, buf, len) ==
  IF port < 0 \/ port >= MAX_UART_PORTS
    THEN [st |-> u, ret |-> -13]
    ELSE IF u[port].initialized = 0
      THEN [st |-> u, ret |-> -2]
      ELSE IF ~has_buf \/ len < 0
        THEN [st |-> u, ret |-> -1]
        ELSE IF u[port].tx_count + len > UART_BUFFER_SIZE
          THEN [st |-> u, ret |-> -4]
          ELSE LET r == WriteLoop(u[port], buf, 0, len)
               IN  [st |-> [u EXCEPT ![port] = r.ps], ret |-> r.ret]

\* variant: a full buffer is refused before the loop is entered
v4_hal_uart_write_FullFirst(u, port, has_buf, buf, len) ==
  IF port < 0 \/ port >= MAX_UART_PORTS
    THEN [st |-> u, ret |-> -13]
    ELSE IF u[port].initialized = 0
      THEN [st |-> u, ret |-> -2]
      ELSE IF ~has_buf \/ len < 0
        THEN [st |-> u, ret |-> -1]
        ELSE IF TxFull(u[port])
          THEN [st |-> u, ret |-> -4]
          ELSE LET r == WriteLoop(u[port], buf, 0, len)
               IN  [st |-> [u EXCEPT ![port] = r.ps], ret |-> r.ret]

\* has_buf: whether buf is non-null
v4_hal_uart_write(u, port, has_buf, buf, len) ==
  IF port < 0 \/ port >= MAX_UART_PORTS
    THEN [st |-> u, ret |-> -13]
    ELSE IF u[port].initialized = 0
      THEN [st |-> u, ret |-> -2]
      ELSE IF ~has_buf \/ len < 0
        THEN [st |-> u, ret |-> -1]
        ELSE LET r == WriteLoop(u[port], buf, 0, len)
             IN  [st |-> [u EXCEPT ![port] = r.ps], ret |-> r.ret]

\* variant: the initialized check is missing
v4_hal_uart_getc_NoInitCheck(u, port, has_out) ==
  IF port < 0 \/ port >= MAX_UART_PORTS
    THEN [st |-> u, ret |-> -13, out |-> <<>>]
    ELSE IF ~has_out
      THEN [st |-> u, ret |-> -1, out |-> <<>>]
      ELSE IF u[port].rx_pos >= u[port].rx_count
        THEN [st |-> u, ret |-> -3, out |-> <<>>]
        ELSE [st |-> [u EXCEPT ![port].rx_pos = u[port].rx_pos + 1],
              ret |-> 0,
              out |-> <<u[port].rx_buffer[u[port].rx_pos]>>]

\* variant: an empty receive buffer is reported as Busy
v4_hal_uart_getc_BusyWhenEmpty(u, port, has_out) ==
  IF port < 0 \/ port >= MAX_UART_PORTS
    THEN [st |-> u, ret |-> -13, out |-> <<>>]
    ELSE IF u[port].initialized = 0
      THEN [st |-> u, ret |-> -2, out |-> <<>>]
      ELSE IF ~has_out
        THEN [st |-> u, ret |-> -1, out |-> <<>>]
        ELSE IF u[port].rx_pos >= u[port].rx_count
          THEN [st |-> u, ret |-> -4, out |-> <<>>]
          ELSE [st |-> [u EXCEPT ![port].rx_pos = u[port].rx_pos + 1],
                ret |-> 0,
                out |-> <<u[port].rx_buffer[u[port].rx_pos]>>]

\* has_out: whether out_c is non-null
v4_hal_uart_getc(u, port, has_out) ==
  IF port < 0 \/ port >= MAX_UART_PORTS
    THEN [st |-> u, ret |-> -13, out |-> <<>>]
    ELSE IF u[port].initialized = 0
      THEN [st |-> u, ret |-> -2, out |-> <<>>]
      ELSE IF ~has_out
        THEN [st |-> u, ret |-> -1, out |-> <<>>]
        ELSE IF u[port].rx_pos >= u[port].rx_count
          THEN [st |-> u, ret |-> -3, out |-> <<>>]
          ELSE [st |-> [u EXCEPT ![port].rx_pos = u[port].rx_pos + 1],
                ret |-> 0,
                out |-> <<u[port].rx_buffer[u[port].rx_pos]>>]

\* a read that hands over everything pending, whatever max_len is
ToRead_IgnoresMaxLen(ps, max_len) == ps.rx_count - ps.rx_pos

\* int to_read = (available < max_len) ? available : max_len
ToRead(ps, max_len) ==
  LET available == ps.rx_count - ps.rx_pos
  IN  IF available < max_len THEN available ELSE max_len

\* has_ptrs: whether buf and out_len are both non-null;
\* out is what memcpy left in buf, its length is *out_len
v4_hal_uart_read(u, port, has_ptrs, max_len) ==
  IF port < 0 \/ port >= MAX_UART_PORTS
    THEN [st |-> u, ret |-> -13, out |-> <<>>]
    ELSE IF u[port].initialized = 0
      THEN [st |-> u, ret |-> -2, out |-> <<>>]
      ELSE IF ~has_ptrs \/ max_len < 0
        THEN [st |-> u, ret |-> -1, out |-> <<>>]
        ELSE LET to_read == ToRead(u[port], max_len)
             IN  [st |-> [u EXCEPT ![port].rx_pos = u[port].rx_pos + to_read],
                  ret |-> 0,
                  out |-> [i \in 1 .. to_read |->
                             u[port].rx_buffer[u[port].rx_pos + i - 1]]]

\* variant: the length is not capped at the buffer size
InjectLen_NoCap(len) == len

\* if (len > UART_BUFFER_SIZE) len = UART_BUFFER_SIZE
InjectLen(len) == IF len > UART_BUFFER_SIZE THEN UART_BUFFER_SIZE ELSE len

\* variant: the cursor stays where it was
mock_hal_uart_inject_rx_KeepsCursor(u, port, data, len) ==
  IF port < 0 \/ port >= MAX_UART_PORTS
    THEN u
    ELSE LET n == InjectLen(len)
         IN  [u EXCEPT ![port].rx_buffer =
                         [i \in 0 .. (UART_BUFFER_SIZE - 1) |->
                            IF i < n THEN data[i + 1] ELSE u[port].rx_buffer[i]],
                       ![port].rx_count = n]

\* data holds at least len bytes, 0 <= len
mock_hal_uart_inject_rx(u, port, data, len) ==
  IF port < 0 \/ port >= MAX_UART_PORTS
    THEN u
    ELSE LET n == InjectLen(len)
         IN  [u EXCEPT ![port].rx_buffer =
                         [i \in 0 .. (UART_BUFFER_SIZE - 1) |->
                            IF i < n THEN data[i + 1] ELSE u[port].rx_buffer[i]],
                       ![port].rx_count = n,
                       ![port].rx_pos = 0]

\* the bytes mock_hal_uart_get_tx makes readable: tx_buffer up to *out_len
mock_hal_uart_get_tx(u, port) ==
  [i \in 1 .. u[port].tx_count |-> u[port].tx_buffer[i - 1]]

\* tx_count as mock_hal_uart_get_tx reports it through out_len
mock_hal_uart_get_tx_len(u, port) == u[port].tx_count

----------------------------------------------------------------------------
(* UART handles (src/internal/uart_impl.hpp over the platform backends).   *)

\* hal_errors.def is not among the sources: the two codes below stand for
\* negative values different from each other and from HAL_ERR_PARAM
HAL_ERR_NODEV == -19
HAL_ERR_IO == -5

\* PosixPlatform::max_uart_ports(), Esp32Platform::max_uart_ports()
posix_max_uart_ports == 4
esp32_max_uart_ports == 3

\* the null handle
nullptr == 0

\* at most this many UartHandleData objects fit on the heap
MaxHandleData == 2

\* addresses operator new can hand out for a UartHandleData
Addr == 1 .. MaxHandleData

\* no UartHandleData has been allocated yet
HeapEmpty == [a \in Addr |-> [status |-> "unallocated", port |-> 0, fp |-> "null"]]
FlagsClear == [p \in 0 .. (esp32_max_uart_ports - 1) |-> FALSE]

\* the outcome of a call that returns ret and leaves the platform in state st
Returns(st, ret) == [st |-> st, ret |-> ret, fault |-> "none", halted |-> FALSE]

\* the outcomes of a call that executes undefined behaviour: it goes on and
\* returns one of rets, or the process is aborted
Undefined(st, kind, rets) ==
  {[st |-> st, ret |-> r, fault |-> kind, halted |-> FALSE] : r \in rets}
    \cup {[st |-> st, ret |-> 0, fault |-> kind, halted |-> TRUE]}

\* new UartHandleData{port, nullptr}; fp = stdout for port 0; any address
\* that holds no live object may be handed out, a freed one included
PosixPlatform_uart_open_impl(st, port) ==
  {Returns([st EXCEPT !.heap[a] =
                        [status |-> "live", port |-> port,
                         fp |-> IF port = 0 THEN "stdout" ELSE "null"]], a) :
     a \in {x \in Addr : st.heap[x].status # "live"}}

\* the object a handle points to, if it points to a live one
Live(st, handle) == handle \in Addr /\ st.heap[handle].status = "live"

\* delete h; return HAL_OK
PosixPlatform_uart_close_impl(st, handle) ==
  IF Live(st, handle)
    THEN {Returns([st EXCEPT !.heap[handle].status = "freed"], HAL_OK)}
    ELSE Undefined(st, "delete of a dead object", {HAL_OK})

\* if (h->fp) { written = fwrite(buf, 1, len, h->fp); ... return written; }
\* return 0; reading h->fp of a dead object may yield either kind of value
PosixPlatform_uart_write_impl(st, handle, len) ==
  IF Live(st, handle)
    THEN {Returns(st, IF st.heap[handle].fp = "stdout" THEN len ELSE 0)}
    ELSE Undefined(st, "read of a dead object", {len, 0})

PosixPlatform_uart_read_impl(st, handle, len) == {Returns(st, 0)}

\* variant: a byte is reported that no read will deliver
PosixPlatform_uart_available_impl_One(st, handle) == {Returns(st, 1)}

PosixPlatform_uart_available_impl(st, handle) == {Returns(st, 0)}

\* the port a handle stands for: handle - 1
Esp32Port(handle) == handle - 1

\* uart_param_config, uart_set_pin and uart_driver_install may each fail
Esp32Platform_uart_open_impl(st, port, has_config) ==
  IF port < 0 \/ port >= esp32_max_uart_ports
    THEN {Returns(st, nullptr)}
    ELSE IF ~has_config
      THEN {Returns(st, nullptr)}
      ELSE IF st.flags[port]
        THEN {Returns(st, port + 1)}
        ELSE {Returns(st, nullptr),
              Returns([st EXCEPT !.flags[port] = TRUE], port + 1)}

\* uart_driver_delete may fail
Esp32Platform_uart_close_impl(st, handle) ==
  IF handle = nullptr
    THEN {Returns(st, HAL_ERR_PARAM)}
    ELSE IF Esp32Port(handle) < 0 \/ Esp32Port(handle) >= esp32_max_uart_ports
      THEN {Returns(st, HAL_ERR_PARAM)}
      ELSE IF ~st.flags[Esp32Port(handle)]
        THEN {Returns(st, HAL_OK)}
        ELSE {Returns(st, HAL_ERR_IO),
              Returns([st EXCEPT !.flags[Esp32Port(handle)] = FALSE], HAL_OK)}

\* the checks write, read and available make before they reach the driver;
\* driver_rets is what the driver call can make the function return
Esp32Checked(st, handle, has_buf, driver_rets) ==
  IF handle = nullptr \/ ~has_buf
    THEN {Returns(st, HAL_ERR_PARAM)}
    ELSE IF Esp32Port(handle) < 0 \/ Esp32Port(handle) >= esp32_max_uart_ports
      THEN {Returns(st, HAL_ERR_PARAM)}
      ELSE IF ~st.flags[Esp32Port(handle)]
        THEN {Returns(st, HAL_ERR_NODEV)}
        ELSE {Returns(st, r) : r \in driver_rets}

\* uart_write_bytes returns len, or -1
Esp32Platform_uart_write_impl(st, handle, has_buf, len) ==
  Esp32Checked(st, handle, has_buf, {len, HAL_ERR_IO})

\* uart_read_bytes with no timeout returns 0 .. len bytes, or -1
Esp32Platform_uart_read_impl(st, handle, has_buf, len) ==
  Esp32Checked(st, handle, has_buf, {0, len, HAL_ERR_IO})

\* uart_get_buffered_data_len reports the length, or fails
Esp32Platform_uart_available_impl(st, handle) ==
  Esp32Checked(st, handle, TRUE, {0, 1, HAL_ERR_IO})

\* UartBase<Platform>::open
UartBase_open(be, st, port, has_config) ==
  IF ~has_config \/ port < 0
       \/ port >= (IF be = "posix" THEN posix_max_uart_ports ELSE esp32_max_uart_ports)
    THEN {Returns(st, nullptr)}
    ELSE IF be = "posix"
      THEN PosixPlatform_uart_open_impl(st, port)
      ELSE Esp32Platform_uart_open_impl(st, port, has_config)

\* UartBase<Platform>::close
UartBase_close(be, st, handle) ==
  IF handle = nullptr
    THEN {Returns(st, HAL_ERR_PARAM)}
    ELSE IF be = "posix"
      THEN PosixPlatform_uart_close_impl(st, handle)
      ELSE Esp32Platform_uart_close_impl(st, handle)

\* UartBase<Platform>::write
UartBase_write(be, st, handle, has_buf, len) ==
  IF handle = nullptr \/ ~has_buf
    THEN {Returns(st, HAL_ERR_PARAM)}
    ELSE IF be = "posix"
      THEN PosixPlatform_uart_write_impl(st, handle, len)
      ELSE Esp32Platform_uart_write_impl(st, handle, has_buf, len)

\* UartBase<Platform>::read
UartBase_read(be, st, handle, has_buf, len) ==
  IF handle = nullptr \/ ~has_buf
    THEN {Returns(st, HAL_ERR_PARAM)}
    ELSE IF be = "posix"
      THEN PosixPlatform_uart_read_impl(st, handle, len)
      ELSE Esp32Platform_uart_read_impl(st, handle, has_buf, len)

\* UartBase<Platform>::available
UartBase_available(be, st, handle) ==
  IF handle = nullptr
    THEN {Returns(st, HAL_ERR_PARAM)}
    ELSE IF be = "posix"
      THEN PosixPlatform_uart_available_impl(st, handle)
      ELSE Esp32Platform_uart_available_impl(st, handle)

----------------------------------------------------------------------------
(* Unsigned integers of C.  A uint32_t is two digits of base 2^16, the low  *)
(* digit first; a uint64_t is four.  Arithmetic on n digits drops the carry *)
(* out of the highest digit, as unsigned arithmetic of that width does.     *)

Base == 65536

Zero32 == <<0, 0>>
Zero64 == <<0, 0, 0, 0>>
UINT32_MAX == <<65535, 65535>>
UINT64_MAX == <<65535, 65535, 65535, 65535>>

\* the uint32_t of an integer 0 <= n < 2^31
U32(n) == <<n % Base, n \div Base>>

\* conversion to a wider unsigned type
Ext(x, n) == [i \in 1 .. n |-> IF i <= Len(x) THEN x[i] ELSE 0]

RECURSIVE CarryIn(_, _, _)
CarryIn(x, y, i) ==
  IF i = 1 THEN 0 ELSE (x[i - 1] + y[i - 1] + CarryIn(x, y, i - 1)) \div Base

\* x + y in n digits
AddN(x, y, n) == [i \in 1 .. n |-> (x[i] + y[i] + CarryIn(x, y, i)) % Base]

RECURSIVE Borrow(_, _, _)
Borrow(x, y, i) ==
  IF i = 1 THEN 0
  ELSE IF x[i - 1] - y[i - 1] - Borrow(x, y, i - 1) < 0 THEN 1 ELSE 0

\* x - y in n digits
SubN(x, y, n) == [i \in 1 .. n |-> (x[i] - y[i] - Borrow(x, y, i) + Base) % Base]

RECURSIVE MulCarry(_, _, _)
MulCarry(x, k, i) ==
  IF i = 1 THEN 0 ELSE (x[i - 1] * k + MulCarry(x, k, i - 1)) \div Base

\* x * k in n digits, for a factor k < 2^15
MulN(x, k, n) == [i \in 1 .. n |-> (x[i] * k + MulCarry(x, k, i)) % Base]

\* x / k on a uint32_t, for a divisor k < 2^15
Div32(x, k) == <<((x[2] % k) * Base + x[1]) \div k, x[2] \div k>>

RECURSIVE LessFrom(_, _, _)
LessFrom(x, y, i) ==
  IF i = 0 THEN FALSE
  ELSE IF x[i] # y[i] THEN x[i] < y[i] ELSE LessFrom(x, y, i - 1)

\* x < y, both of the same width
Less(x, y) == LessFrom(x, y, Len(x))

----------------------------------------------------------------------------
(* Timer of the simulated backend (tests/mock_hal.cpp).  t is the pair of  *)
(* counters [millis, micros].                                              *)

MockTimer == [millis |-> mock_millis_counter, micros |-> mock_micros_counter]

v4_hal_millis(t) == t.millis

v4_hal_micros(t) == t.micros

\* variant: ms * 1000 computed in 32 bits
v4_hal_delay_ms_Mul32(t, ms) ==
  [millis |-> AddN(t.millis, ms, 2),
   micros |-> AddN(t.micros, Ext(MulN(ms, 1000, 2), 4), 4)]

\* mock_millis_counter += ms; mock_micros_counter += ms * 1000ULL;
v4_hal_delay_ms(t, ms) ==
  [millis |-> AddN(t.millis, ms, 2),
   micros |-> AddN(t.micros, MulN(Ext(ms, 4), 1000, 4), 4)]

\* variant: the microsecond counter advanced in 32 bits
v4_hal_delay_us_Micros32(t, us) ==
  [millis |-> AddN(t.millis, Div32(us, 1000), 2),
   micros |-> Ext(AddN(SubSeq(t.micros, 1, 2), us, 2), 4)]

\* mock_micros_counter += us; mock_millis_counter += us / 1000;
v4_hal_delay_us(t, us) ==
  [millis |-> AddN(t.millis, Div32(us, 1000), 2),
   micros |-> AddN(t.micros, Ext(us, 4), 4)]

----------------------------------------------------------------------------
(* TimerBase helpers (src/internal/timer_impl.hpp).  now is what millis()  *)
(* returns inside the helper.                                              *)

\* variant: the wrapped branch without its + 1
TimerBase_elapsed_ms_NoPlusOne(now, start_ms) ==
  IF ~Less(now, start_ms)
    THEN SubN(now, start_ms, 2)
    ELSE AddN(SubN(UINT32_MAX, start_ms, 2), now, 2)

\* (now >= start_ms) ? (now - start_ms) : (0xFFFFFFFF - start_ms + now + 1)
TimerBase_elapsed_ms(now, start_ms) ==
  IF ~Less(now, start_ms)
    THEN SubN(now, start_ms, 2)
    ELSE AddN(AddN(SubN(UINT32_MAX, start_ms, 2), now, 2), U32(1), 2)

----------------------------------------------------------------------------
(* Timer of the ESP32 backend.  Time is esp_timer_get_time(), microseconds *)
(* since boot; a delay is the set of times it may take.                    *)

\* FreeRTOS tick rate of the build (CONFIG_FREERTOS_HZ, 100 unless changed)
configTICK_RATE_HZ == 100

TickPeriodUs == 1000000 \div configTICK_RATE_HZ

pdMS_TO_TICKS(ms) == (ms * configTICK_RATE_HZ) \div 1000

\* vTaskDelay(ticks): the task runs again when the tick count has advanced by
\* ticks; the first of these ticks may come at any moment after the call
vTaskDelay(ticks) ==
  IF ticks = 0 THEN {0}
  ELSE {(ticks - 1) * TickPeriodUs + 1, ticks * TickPeriodUs}

Esp32Platform_millis_impl(t) == U32(t \div 1000)

Esp32Platform_micros_impl(t) == Ext(U32(t), 4)

Esp32Platform_delay_ms_impl(ms) ==
  LET ticks == pdMS_TO_TICKS(ms)
  IN  vTaskDelay(IF ticks = 0 /\ ms > 0 THEN 1 ELSE ticks)

Esp32Platform_delay_us_impl(us) ==
  IF us = 0 THEN {0}
  ELSE IF us >= 1000 THEN Esp32Platform_delay_ms_impl(us \div 1000)
  ELSE {us, us + 1}

----------------------------------------------------------------------------
(* Bounds and the arguments the calls are tried with.                      *)

\* at most this many putc/write calls of a run enqueue bytes
MaxTxAppends == 2
\* at most this many getc/read calls of a run consume bytes
MaxRxPops == 3

\* below range, first and last pin, first pin above range
PinArgs == {-1, 0, MAX_GPIO_PINS - 1, MAX_GPIO_PINS}
MockModeArgs == {V4_HAL_GPIO_MODE_INPUT, V4_HAL_GPIO_MODE_OUTPUT,
                 V4_HAL_GPIO_MODE_INPUT_PULLUP, V4_HAL_GPIO_MODE_INPUT_PULLDOWN}
HalModeArgs == {HAL_GPIO_INPUT, HAL_GPIO_INPUT_PULLUP, HAL_GPIO_INPUT_PULLDOWN,
                HAL_GPIO_OUTPUT, HAL_GPIO_OUTPUT_OD}
MockValueArgs == {0, 1, 2}
HalValueArgs == {HAL_GPIO_LOW, HAL_GPIO_HIGH}

\* below range, first port, first port above range
PortArgs == {-1, 0, MAX_UART_PORTS}
BaudArgs == {0, 9600}

\* "Hi" and "Hello"
Hi == <<72, 105>>
Hello == <<72, 101, 108, 108, 111>>
\* n bytes, no two of the first 251 alike
Fill(n) == [i \in 1 .. n |-> (i % 251) + 1]

\* (buf, len) pairs handed to v4_hal_uart_write
WriteArgs ==
  {[has_buf |-> FALSE, buf |-> <<>>, len |-> 1],
   [has_buf |-> TRUE, buf |-> Hi, len |-> -1],
   [has_buf |-> TRUE, buf |-> Hi, len |-> 0],
   [has_buf |-> TRUE, buf |-> Hi, len |-> 2],
   [has_buf |-> TRUE, buf |-> Hello, len |-> 5],
   [has_buf |-> TRUE, buf |-> Fill(UART_BUFFER_SIZE - 1), len |-> UART_BUFFER_SIZE - 1],
   [has_buf |-> TRUE, buf |-> Fill(UART_BUFFER_SIZE), len |-> UART_BUFFER_SIZE],
   [has_buf |-> TRUE, buf |-> Fill(UART_BUFFER_SIZE + 44), len |-> UART_BUFFER_SIZE + 44]}
PutcArgs == {65}

\* (data, len) pairs handed to mock_hal_uart_inject_rx
InjectArgs ==
  {[data |-> Hi, len |-> 0],
   [data |-> Hi, len |-> 2],
   [data |-> Hello, len |-> 5],
   [data |-> Fill(UART_BUFFER_SIZE + 44), len |-> UART_BUFFER_SIZE + 44]}
ReadLenArgs == {-1, 0, 1, 2, UART_BUFFER_SIZE + 44}

\* ports handed to hal_uart_open: below range, two ports of every backend,
\* beyond the range of every backend
OpenPortArgs == {-1, 0, 1, posix_max_uart_ports}
\* a hal_uart_config_t
Config(baudrate, data_bits, stop_bits, parity) ==
  [present |-> TRUE, baudrate |-> baudrate, data_bits |-> data_bits,
   stop_bits |-> stop_bits, parity |-> parity]
\* a null config pointer
NullConfig ==
  [present |-> FALSE, baudrate |-> 0, data_bits |-> 0, stop_bits |-> 0, parity |-> 0]
\* configs handed to hal_uart_open: null, a valid one, and one for each field
\* with that field outside its documented values
ConfigArgs ==
  {NullConfig,
   Config(9600, 8, 1, 0),
   Config(0, 8, 1, 0),
   Config(9600, 9, 1, 0),
   Config(9600, 8, 3, 0),
   Config(9600, 8, 1, 3)}
\* the fields of a config, nothing for a null pointer
ConfigFields(c) ==
  IF c.present THEN <<c.baudrate, c.data_bits, c.stop_bits, c.parity>> ELSE <<>>

\* handles handed to the calls: null, and the values a caller may hold
HandleArgs == 0 .. (esp32_max_uart_ports + 1)
\* byte counts handed to hal_uart_write and hal_uart_read
UartLenArgs == {2}

\* the first n elements of a sequence
Take(s, n) == [i \in 1 .. n |-> s[i]]

MaxDelays == 3

\* ms * 1000 of the third needs more than 32 bits
MsArgs == {U32(0), U32(100), U32(4294968), UINT32_MAX}
UsArgs == {U32(0), U32(50), U32(1999), UINT32_MAX}
SetMillisArgs == {U32(1000), UINT32_MAX}
SetMicrosArgs == {Ext(U32(500000), 4), UINT64_MAX}
Esp32MsArgs == {0, 1, 25}
Esp32UsArgs == {0, 500, 1000, 1999, 19999}


----------------------------------------------------------------------------
(* State after program start.                                              *)

NoPinCfg == [p \in 0 .. 31 |-> "None"]
NoBytes == [p \in MockPorts |-> <<>>]
\* the execution contexts: the main path, and a second thread or interrupt
Threads == {"main", "second"}
NoToggle == [pin |-> 0, current |-> 0]
portMUX_INITIALIZER_UNLOCKED == [owner |-> "none", count |-> 0]
NoCall == [op |-> "none", a |-> 0, b |-> 0, ret |-> 0, out |-> <<>>]

\* the storage a scoped Uart object can be constructed in
UartSlots == 1 .. 3

\* every value a hal_handle_t takes here, the null handle included
HandleValues == nullptr .. esp32_max_uart_ports

\* storage holding no object
NoUart == [life |-> "none", cls |-> "none", handle_ |-> nullptr]
NoUarts == [s \in UartSlots |-> NoUart]
NoHandleCalls == [h \in HandleValues |-> 0]

InitStatics ==
  /\ uarts = NoUarts
  /\ open_rets = NoHandleCalls
  /\ close_calls = NoHandleCalls
  /\ mock_gpio = MockGpioZero
  /\ gpio_states = BitmapZero
  /\ gpio_modes = BitmapZero
  /\ pin_cfg = NoPinCfg
  /\ mock_uart = MockUartZero
  /\ mock_millis_counter = Zero32
  /\ mock_micros_counter = Zero64
  /\ esp_timer = 0
  /\ posix_clock = Zero64
  /\ delays = 0
  /\ tx_appends = 0
  /\ tx_accepted = NoBytes
  /\ rx_pops = 0
  /\ rx_injected = NoBytes
  /\ rx_delivered = NoBytes
  /\ critical_mutex = "none"
  /\ critical_spinlock = portMUX_INITIALIZER_UNLOCKED
  /\ pc = [t \in Threads |-> "idle"]
  /\ tog = [t \in Threads |-> NoToggle]
  /\ uart_heap = HeapEmpty
  /\ uart_init_flags = FlagsClear
  /\ issued = {}
  /\ closed_ok = {}
  /\ stale = FALSE
  /\ uart_fault = "none"
  /\ halted = FALSE
  /\ last = NoCall

----------------------------------------------------------------------------
(* Calls into the simulated backend.                                       *)

\* variant: a reset that leaves the two counters as they are
mock_hal_reset_KeepsClock ==
  /\ backend = "mock"
  /\ mock_gpio' = MockGpioZero
  /\ mock_uart' = MockUartZero
  /\ pin_cfg' = NoPinCfg
  /\ rx_injected' = NoBytes
  /\ rx_delivered' = NoBytes
  /\ tx_accepted' = NoBytes
  /\ last' = [NoCall EXCEPT !.op = "reset"]
  /\ UNCHANGED <<restVars, backend, ctxVars, handleVars, gpio_states, gpio_modes, tx_appends, rx_pops,
                 timerVars>>

\* mock_hal_reset(), also reached through v4_hal_system_reset()
mock_hal_reset ==
  /\ backend = "mock"
  /\ mock_gpio' = MockGpioZero
  /\ mock_uart' = MockUartZero
  /\ mock_millis_counter' = Zero32
  /\ mock_micros_counter' = Zero64
  /\ pin_cfg' = NoPinCfg
  /\ rx_injected' = NoBytes
  /\ rx_delivered' = NoBytes
  /\ tx_accepted' = NoBytes
  /\ last' = [NoCall EXCEPT !.op = "reset"]
  /\ UNCHANGED <<restVars, backend, ctxVars, handleVars, gpio_states, gpio_modes, tx_appends, rx_pops,
                 esp_timer, delays>>

Call_gpio_init ==
  /\ backend = "mock"
  /\ \E pin \in PinArgs, mode \in MockModeArgs :
       LET r == v4_hal_gpio_init(mock_gpio, pin, mode)
       IN  /\ mock_gpio' = r.st
           /\ pin_cfg' = IF r.ret = 0
                           THEN [pin_cfg EXCEPT ![pin] = MockModeName(mode)]
                           ELSE pin_cfg
           /\ last' = [op |-> "configure", a |-> pin, b |-> mode,
                       ret |-> r.ret, out |-> <<>>]
  /\ UNCHANGED <<restVars, backend, ctxVars, handleVars, gpio_states, gpio_modes, mockUartVars, timerVars>>

Call_gpio_write ==
  /\ backend = "mock"
  /\ \E pin \in PinArgs, value \in MockValueArgs :
       LET r == v4_hal_gpio_write(mock_gpio, pin, value)
       IN  /\ mock_gpio' = r.st
           /\ last' = [op |-> "write", a |-> pin, b |-> value,
                       ret |-> r.ret, out |-> <<>>]
  /\ UNCHANGED <<restVars, backend, ctxVars, handleVars, gpio_states, gpio_modes, pin_cfg, mockUartVars,
                 timerVars>>

Call_gpio_read ==
  /\ backend = "mock"
  /\ \E pin \in PinArgs, has_out \in BOOLEAN :
       LET r == v4_hal_gpio_read(mock_gpio, pin, has_out)
       IN  last' = [op |-> "read", a |-> pin, b |-> IF has_out THEN 1 ELSE 0,
                    ret |-> r.ret, out |-> r.out]
  /\ UNCHANGED <<restVars, backend, ctxVars, handleVars, gpioVars, mockUartVars, timerVars>>

----------------------------------------------------------------------------
(* Calls into the POSIX backend through the extern "C" bridge.             *)

PosixGpio == [modes |-> gpio_modes, states |-> gpio_states]

hal_gpio_mode ==
  /\ backend = "posix"
  /\ \E pin \in PinArgs, mode \in HalModeArgs :
       LET r == GpioBase_mode(PosixGpio, pin, mode)
       IN  /\ gpio_modes' = r.st.modes
           /\ gpio_states' = r.st.states
           /\ pin_cfg' = IF r.ret = HAL_OK
                           THEN [pin_cfg EXCEPT ![pin] = HalModeName(mode)]
                           ELSE pin_cfg
           /\ last' = [op |-> "configure", a |-> pin, b |-> mode,
                       ret |-> r.ret, out |-> <<>>]
  /\ UNCHANGED <<restVars, backend, ctxVars, handleVars, mock_gpio, mockUartVars, timerVars>>

hal_gpio_write ==
  /\ backend = "posix"
  /\ \E pin \in PinArgs, value \in HalValueArgs :
       LET r == GpioBase_write(PosixGpio, pin, value)
       IN  /\ gpio_modes' = r.st.modes
           /\ gpio_states' = r.st.states
           /\ last' = [op |-> "write", a |-> pin, b |-> value,
                       ret |-> r.ret, out |-> <<>>]
  /\ UNCHANGED <<restVars, backend, ctxVars, handleVars, mock_gpio, pin_cfg, mockUartVars, timerVars>>

hal_gpio_read ==
  /\ backend = "posix"
  /\ \E pin \in PinArgs, has_out \in BOOLEAN :
       LET r == GpioBase_read(PosixGpio, pin, has_out)
       IN  last' = [op |-> "read", a |-> pin, b |-> IF has_out THEN 1 ELSE 0,
                    ret |-> r.ret, out |-> r.out]
  /\ UNCHANGED <<restVars, backend, ctxVars, handleVars, gpioVars, mockUartVars, timerVars>>

\* one execution context: the read half and the write half run back to back;
\* last.b keeps the pin's value as it was before the call
hal_gpio_toggle ==
  /\ backend = "posix"
  /\ \E pin \in PinArgs :
       LET r == GpioBase_toggle(PosixGpio, pin)
       IN  /\ gpio_modes' = r.st.modes
           /\ gpio_states' = r.st.states
           /\ last' = [op |-> "toggle", a |-> pin,
                       b |-> IF pin \in PosixPins /\ gpio_states[pin] THEN 1 ELSE 0,
                       ret |-> r.ret, out |-> <<>>]
  /\ UNCHANGED <<restVars, backend, ctxVars, handleVars, mock_gpio, pin_cfg, mockUartVars, timerVars>>

----------------------------------------------------------------------------
(* GPIO, either backend, one execution context.                            *)

InitGpio == backend \in {"mock", "posix"} /\ InitStatics

NextGpio ==
  \/ Call_gpio_init
  \/ Call_gpio_write
  \/ Call_gpio_read
  \/ mock_hal_reset
  \/ hal_gpio_mode
  \/ hal_gpio_write
  \/ hal_gpio_read
  \/ hal_gpio_toggle

SpecGpio == InitGpio /\ [][NextGpio]_vars

----------------------------------------------------------------------------
(* GPIO claims, checked under SpecGpio.                                    *)

\* pins in range: 32 on both backends
Pins == IF backend = "mock" THEN MockPins ELSE PosixPins

\* the value read(p) reports for pin p
PinValue(p) == IF backend = "mock"
                 THEN mock_gpio[p].value
                 ELSE IF gpio_states[p] THEN 1 ELSE 0

\* all of a backend's per-pin state
GpioState == <<mock_gpio, gpio_states, gpio_modes>>

\* modes a backend accepts write and toggle in
WritableModes == IF backend = "mock" THEN {"Output"} ELSE {"Output", "OutputOpenDrain"}

\* C3 as stated: write(p, v) and toggle(p) succeed only when the pin's mode is
\* Output; on a configured pin in mode Input, InputPullUp, InputPullDown or
\* OutputOpenDrain they return InvalidArg and leave the pin's value unchanged.
C3_WriteOnlyInOutputMode ==
  [][\A p \in Pins :
       (last'.op \in {"write", "toggle"} /\ last'.a = p) =>
         /\ last'.ret = 0 => pin_cfg[p] = "Output"
         /\ pin_cfg[p] \in {"Input", "InputPullUp", "InputPullDown", "OutputOpenDrain"}
              => (last'.ret = InvalidArg /\ PinValue(p)' = PinValue(p))]_vars

\* C3 amended: write and toggle succeed only on a pin configured for output,
\* which is mode Output in the simulated backend and Output or OutputOpenDrain
\* in the POSIX backend; on a configured pin in mode Input, InputPullUp or
\* InputPullDown they return InvalidArg and leave the pin's value unchanged.
C3_WriteOnlyInOutputModes ==
  [][\A p \in Pins :
       (last'.op \in {"write", "toggle"} /\ last'.a = p) =>
         /\ last'.ret = 0 => pin_cfg[p] \in WritableModes
         /\ pin_cfg[p] \in {"Input", "InputPullUp", "InputPullDown"}
              => (last'.ret = InvalidArg /\ PinValue(p)' = PinValue(p))]_vars

\* C3 witness: a toggle was refused on a pull-up input pin
C3_Witness ==
  /\ last.op = "toggle" /\ last.a \in Pins
  /\ pin_cfg[last.a] = "InputPullUp"
  /\ last.ret = InvalidArg

C5_OutOfRangeOutOfBounds ==
  [][(last'.op \in {"configure", "write", "read"} /\ last'.a \notin Pins) =>
       (last'.ret = OutOfBounds /\ GpioState' = GpioState)]_vars

\* C5 amended: configure, write and read with a pin index below 0 or at or
\* above max_pins always fail and change no pin's state; the simulated
\* backend returns OutOfBounds, GpioBase returns InvalidArg (HAL_ERR_PARAM).
C5_OutOfRangeRejected ==
  [][(last'.op \in {"configure", "write", "read"} /\ last'.a \notin Pins) =>
       /\ GpioState' = GpioState
       /\ pin_cfg' = pin_cfg
       /\ backend = "mock" => last'.ret = OutOfBounds
       /\ backend = "posix" => last'.ret = InvalidArg]_vars

\* C5 witness: a write to the first pin above the range was refused by the
\* simulated backend while a pin was High
C5_Witness ==
  /\ backend = "mock"
  /\ last.op = "write" /\ last.a = MAX_GPIO_PINS /\ last.b = 1
  /\ last.ret = OutOfBounds
  /\ mock_gpio[0].value = 1

\* C6: a successful configure(p, mode) on an in-range pin leaves the pin with
\* the given mode, value Low and initialized.
C6_ConfigureResetsValue ==
  (last.op = "configure" /\ last.ret = 0) =>
    /\ PinValue(last.a) = 0
    /\ backend = "mock" =>
         (mock_gpio[last.a].initialized = 1 /\ mock_gpio[last.a].mode = last.b)
    /\ backend = "posix" =>
         (gpio_modes[last.a] <=> last.b \in {HAL_GPIO_OUTPUT, HAL_GPIO_OUTPUT_OD})

\* C7: on a pin configured as Output, write(p, v) succeeds and read(p) then
\* returns v; toggle(p) succeeds and flips the value read(p) returns; a second
\* toggle right after the first restores the value held before the first.
C7_WriteReadToggle ==
  [][\A p \in Pins :
       (last'.a = p /\ pin_cfg[p] = "Output") =>
         /\ last'.op = "write" =>
              (last'.ret = 0 /\ PinValue(p)' = IF last'.b # 0 THEN 1 ELSE 0)
         /\ (last'.op = "read" /\ last'.b = 1) =>
              (last'.ret = 0 /\ last'.out = <<PinValue(p)>>
                 /\ GpioState' = GpioState)
         /\ last'.op = "toggle" =>
              (last'.ret = 0 /\ PinValue(p)' = 1 - PinValue(p))
         /\ (last'.op = "toggle" /\ last.op = "toggle" /\ last.a = p
               /\ last.ret = 0) =>
              PinValue(p)' = last.b]_vars

\* C7 witness: the second of two toggles in a row brought an Output pin
\* back to High
C7_Witness ==
  /\ last.op = "toggle" /\ last.a = 0 /\ last.ret = 0 /\ last.b = 0
  /\ pin_cfg[0] = "Output"
  /\ PinValue(0) = 1

----------------------------------------------------------------------------
(* UART calls into the simulated backend.                                  *)

\* one more call that changed the port state, if the call changed it
Charged(count, before, after) == IF after # before THEN count + 1 ELSE count

Call_uart_init ==
  /\ backend = "mock"
  /\ \E port \in PortArgs, baudrate \in BaudArgs :
       LET r == v4_hal_uart_init(mock_uart, port, baudrate)
       IN  /\ mock_uart' = r.st
           /\ rx_injected' = IF r.ret = 0
                               THEN [rx_injected EXCEPT ![port] = <<>>]
                               ELSE rx_injected
           /\ rx_delivered' = IF r.ret = 0
                                THEN [rx_delivered EXCEPT ![port] = <<>>]
                                ELSE rx_delivered
           /\ tx_accepted' = IF r.ret = 0
                               THEN [tx_accepted EXCEPT ![port] = <<>>]
                               ELSE tx_accepted
           /\ last' = [op |-> "uart_init", a |-> port, b |-> baudrate,
                       ret |-> r.ret, out |-> <<>>]
  /\ UNCHANGED <<restVars, backend, ctxVars, handleVars, gpioVars, timerVars, tx_appends, rx_pops>>

Call_uart_putc ==
  /\ backend = "mock"
  /\ \E port \in PortArgs, c \in PutcArgs :
       LET r == v4_hal_uart_putc(mock_uart, port, c)
       IN  /\ Charged(tx_appends, mock_uart, r.st) <= MaxTxAppends
           /\ tx_appends' = Charged(tx_appends, mock_uart, r.st)
           /\ mock_uart' = r.st
           /\ tx_accepted' = IF r.ret = 0
                               THEN [tx_accepted EXCEPT ![port] = @ \o <<c>>]
                               ELSE tx_accepted
           /\ last' = [op |-> "putc", a |-> port, b |-> 1,
                       ret |-> r.ret, out |-> <<c>>]
  /\ UNCHANGED <<restVars, backend, ctxVars, handleVars, gpioVars, timerVars, rx_pops, rx_injected,
                 rx_delivered>>

\* last.b is the number of bytes the call asks to send (0 for a call that
\* the argument checks refuse), last.out the bytes it was given
Call_uart_write ==
  /\ backend = "mock"
  /\ \E port \in PortArgs, w \in WriteArgs :
       LET r == v4_hal_uart_write(mock_uart, port, w.has_buf, w.buf, w.len)
       IN  /\ Charged(tx_appends, mock_uart, r.st) <= MaxTxAppends
           /\ tx_appends' = Charged(tx_appends, mock_uart, r.st)
           /\ mock_uart' = r.st
           /\ tx_accepted' =
                IF r.ret = 0
                  THEN [tx_accepted EXCEPT ![port] = @ \o Take(w.buf, w.len)]
                  ELSE IF r.ret = Busy
                    THEN [tx_accepted EXCEPT
                            ![port] = @ \o Take(w.buf, UART_BUFFER_SIZE - Len(@))]
                    ELSE tx_accepted
           /\ last' = [op |-> "write", a |-> port,
                       b |-> IF w.has_buf /\ w.len > 0 THEN w.len ELSE 0,
                       ret |-> r.ret, out |-> w.buf]
  /\ UNCHANGED <<restVars, backend, ctxVars, handleVars, gpioVars, timerVars, rx_pops, rx_injected,
                 rx_delivered>>

Call_uart_inject_rx ==
  /\ backend = "mock"
  /\ \E port \in PortArgs, d \in InjectArgs :
       /\ mock_uart' = mock_hal_uart_inject_rx(mock_uart, port, d.data, d.len)
       /\ rx_injected' = IF port \in MockPorts
                           THEN [rx_injected EXCEPT
                                   ![port] = Take(d.data, mock_uart'[port].rx_count)]
                           ELSE rx_injected
       /\ rx_delivered' = IF port \in MockPorts
                            THEN [rx_delivered EXCEPT ![port] = <<>>]
                            ELSE rx_delivered
       /\ last' = [op |-> "inject", a |-> port, b |-> d.len,
                   ret |-> 0, out |-> <<>>]
  /\ UNCHANGED <<restVars, backend, ctxVars, handleVars, gpioVars, timerVars, tx_appends, rx_pops,
                 tx_accepted>>

\* last.b tells whether out_c was non-null
Call_uart_getc ==
  /\ backend = "mock"
  /\ \E port \in PortArgs, has_out \in BOOLEAN :
       LET r == v4_hal_uart_getc(mock_uart, port, has_out)
       IN  /\ Charged(rx_pops, mock_uart, r.st) <= MaxRxPops
           /\ rx_pops' = Charged(rx_pops, mock_uart, r.st)
           /\ mock_uart' = r.st
           /\ rx_delivered' = IF r.ret = 0
                                THEN [rx_delivered EXCEPT ![port] = @ \o r.out]
                                ELSE rx_delivered
           /\ last' = [op |-> "getc", a |-> port, b |-> IF has_out THEN 1 ELSE 0,
                       ret |-> r.ret, out |-> r.out]
  /\ UNCHANGED <<restVars, backend, ctxVars, handleVars, gpioVars, timerVars, tx_appends, rx_injected,
                 tx_accepted>>

\* last.b is max_len, or -1 for a call with a null buf or out_len
Call_uart_read ==
  /\ backend = "mock"
  /\ \E port \in PortArgs, has_ptrs \in BOOLEAN, max_len \in ReadLenArgs :
       LET r == v4_hal_uart_read(mock_uart, port, has_ptrs, max_len)
       IN  /\ Charged(rx_pops, mock_uart, r.st) <= MaxRxPops
           /\ rx_pops' = Charged(rx_pops, mock_uart, r.st)
           /\ mock_uart' = r.st
           /\ rx_delivered' = IF r.ret = 0
                                THEN [rx_delivered EXCEPT ![port] = @ \o r.out]
                                ELSE rx_delivered
           /\ last' = [op |-> "read", a |-> port,
                       b |-> IF has_ptrs THEN max_len ELSE -1,
                       ret |-> r.ret, out |-> r.out]
  /\ UNCHANGED <<restVars, backend, ctxVars, handleVars, gpioVars, timerVars, tx_appends, rx_injected,
                 tx_accepted>>

----------------------------------------------------------------------------
(* The simulated UART: the transmit side, and the receive side.            *)

InitMock == backend = "mock" /\ InitStatics

NextMockUartTx ==
  \/ Call_uart_init
  \/ Call_uart_putc
  \/ Call_uart_write
  \/ mock_hal_reset

SpecMockUartTx == InitMock /\ [][NextMockUartTx]_vars

NextMockUartRx ==
  \/ Call_uart_init
  \/ Call_uart_inject_rx
  \/ Call_uart_getc
  \/ Call_uart_read
  \/ mock_hal_reset

SpecMockUartRx == InitMock /\ [][NextMockUartRx]_vars

----------------------------------------------------------------------------
(* GPIO toggle of the POSIX backend run from two execution contexts.       *)

\* the read half of GpioBase::toggle run by context t: ret = read(pin,
\* &current); if (ret != HAL_OK) return ret
toggle_read(t) ==
  /\ backend = "posix"
  /\ pc[t] = "idle"
  /\ \E pin \in PinArgs :
       LET r == GpioBase_read(PosixGpio, pin, TRUE)
       IN  IF r.ret # HAL_OK
             THEN /\ last' = [op |-> "toggle", a |-> pin, b |-> 0,
                              ret |-> r.ret, out |-> <<>>]
                  /\ UNCHANGED <<pc, tog>>
             ELSE /\ pc' = [pc EXCEPT ![t] = "toggle_write"]
                  /\ tog' = [tog EXCEPT ![t] = [pin |-> pin, current |-> r.out[1]]]
                  /\ UNCHANGED last
  /\ UNCHANGED <<restVars, backend, gpioVars, mockUartVars, timerVars, handleVars,
                 critical_mutex, critical_spinlock>>

\* the write half: return write(pin, new_val)
toggle_write(t) ==
  /\ backend = "posix"
  /\ pc[t] = "toggle_write"
  /\ LET r == GpioBase_write(PosixGpio, tog[t].pin, ToggleNewVal(tog[t].current))
     IN  /\ gpio_modes' = r.st.modes
         /\ gpio_states' = r.st.states
         /\ last' = [op |-> "toggle", a |-> tog[t].pin, b |-> tog[t].current,
                     ret |-> r.ret, out |-> <<>>]
  /\ pc' = [pc EXCEPT ![t] = "idle"]
  /\ tog' = [tog EXCEPT ![t] = NoToggle]
  /\ UNCHANGED <<restVars, backend, mock_gpio, pin_cfg, mockUartVars, timerVars,
                 handleVars, critical_mutex, critical_spinlock>>

\* variant: the lock is taken whether or not another context holds it
hal_critical_enter_NoWait(t) ==
  /\ backend = "posix"
  /\ pc[t] = "idle"
  /\ critical_mutex' = t
  /\ pc' = [pc EXCEPT ![t] = "in_critical"]
  /\ last' = [op |-> "critical_enter", a |-> 0, b |-> 0, ret |-> 0, out |-> <<>>]
  /\ UNCHANGED <<restVars, backend, gpioVars, mockUartVars, timerVars, handleVars, tog,
                 critical_spinlock>>

\* pthread_mutex_lock(&critical_mutex): returns once the mutex is free
hal_critical_enter(t) ==
  /\ backend = "posix"
  /\ pc[t] = "idle"
  /\ critical_mutex = "none"
  /\ critical_mutex' = t
  /\ pc' = [pc EXCEPT ![t] = "in_critical"]
  /\ last' = [op |-> "critical_enter", a |-> 0, b |-> 0, ret |-> 0, out |-> <<>>]
  /\ UNCHANGED <<restVars, backend, gpioVars, mockUartVars, timerVars, handleVars, tog,
                 critical_spinlock>>

\* hal_gpio_write by a context that is inside the critical section
guarded_gpio_write(t) ==
  /\ backend = "posix"
  /\ pc[t] = "in_critical"
  /\ \E pin \in PinArgs, value \in HalValueArgs :
       LET r == GpioBase_write(PosixGpio, pin, value)
       IN  /\ gpio_modes' = r.st.modes
           /\ gpio_states' = r.st.states
           /\ last' = [op |-> "write", a |-> pin, b |-> value,
                       ret |-> r.ret, out |-> <<>>]
  /\ UNCHANGED <<restVars, backend, mock_gpio, pin_cfg, mockUartVars, timerVars,
                 handleVars, ctxVars>>

\* pthread_mutex_unlock(&critical_mutex)
hal_critical_exit(t) ==
  /\ backend = "posix"
  /\ pc[t] = "in_critical"
  /\ critical_mutex' = "none"
  /\ pc' = [pc EXCEPT ![t] = "idle"]
  /\ last' = [op |-> "critical_exit", a |-> 0, b |-> 0, ret |-> 0, out |-> <<>>]
  /\ UNCHANGED <<restVars, backend, gpioVars, mockUartVars, timerVars, handleVars, tog,
                 critical_spinlock>>

\* hal_gpio_mode called from the main path, between two of its other calls
main_gpio_mode == pc["main"] = "idle" /\ hal_gpio_mode

InitPosix == backend = "posix" /\ InitStatics

\* the main path configures and toggles; the second context writes inside
\* the critical section
NextToggle ==
  \/ main_gpio_mode
  \/ toggle_read("main")
  \/ toggle_write("main")
  \/ hal_critical_enter("second")
  \/ guarded_gpio_write("second")
  \/ hal_critical_exit("second")

SpecToggle == InitPosix /\ [][NextToggle]_vars

\* C8: while a toggle of a pin is between its read half and its write half,
\* no step changes the value of that pin: a write from another context never
\* takes effect in between
C8_ToggleAtomic ==
  [][\A t \in Threads :
       (pc[t] = "toggle_write" /\ pc'[t] = "toggle_write") =>
         gpio_states'[tog[t].pin] = gpio_states[tog[t].pin]]_vars

----------------------------------------------------------------------------
(* UART handle calls through the extern "C" bridge (hal_uart_bridge.cpp).  *)

UartSt == [heap |-> uart_heap, flags |-> uart_init_flags]

\* what every handle call does with the outcome o of a call given handle h
Outcome(o, h) ==
  /\ uart_heap' = o.st.heap
  /\ uart_init_flags' = o.st.flags
  /\ uart_fault' = o.fault
  /\ halted' = o.halted
  /\ stale' = (h \in closed_ok)

\* last.b tells whether config was non-null, last.out holds its fields
hal_uart_open ==
  /\ backend \in {"posix", "esp32"}
  /\ ~halted
  /\ \E port \in OpenPortArgs, config \in ConfigArgs :
       \E o \in UartBase_open(backend, UartSt, port, config.present) :
         /\ Outcome(o, nullptr)
         /\ issued' = IF o.ret # nullptr THEN issued \cup {o.ret} ELSE issued
         /\ closed_ok' = IF o.ret # nullptr THEN {} ELSE closed_ok
         /\ last' = [op |-> "uart_open", a |-> port,
                     b |-> IF config.present THEN 1 ELSE 0,
                     ret |-> o.ret, out |-> ConfigFields(config)]
  /\ UNCHANGED <<restVars, backend, gpioVars, mockUartVars, timerVars, ctxVars>>

\* last.b tells whether the handle was in issued when the call was made
hal_uart_close ==
  /\ backend \in {"posix", "esp32"}
  /\ ~halted
  /\ \E handle \in HandleArgs :
       \E o \in UartBase_close(backend, UartSt, handle) :
         LET closed == ~o.halted /\ o.ret = HAL_OK /\ handle \in issued
         IN  /\ Outcome(o, handle)
             /\ issued' = IF closed THEN issued \ {handle} ELSE issued
             /\ closed_ok' = IF closed THEN closed_ok \cup {handle} ELSE closed_ok
             /\ last' = [op |-> "uart_close", a |-> handle,
                         b |-> IF handle \in issued THEN 1 ELSE 0,
                         ret |-> o.ret, out |-> <<>>]
  /\ UNCHANGED <<restVars, backend, gpioVars, mockUartVars, timerVars, ctxVars>>

\* last.b is len, or -1 for a call with a null buf
hal_uart_write ==
  /\ backend \in {"posix", "esp32"}
  /\ ~halted
  /\ \E handle \in HandleArgs, has_buf \in BOOLEAN, len \in UartLenArgs :
       \E o \in UartBase_write(backend, UartSt, handle, has_buf, len) :
         /\ Outcome(o, handle)
         /\ last' = [op |-> "uart_write", a |-> handle,
                     b |-> IF has_buf THEN len ELSE -1,
                     ret |-> o.ret, out |-> <<>>]
  /\ UNCHANGED <<restVars, backend, gpioVars, mockUartVars, timerVars, ctxVars,
                 issued, closed_ok>>

hal_uart_read ==
  /\ backend \in {"posix", "esp32"}
  /\ ~halted
  /\ \E handle \in HandleArgs, has_buf \in BOOLEAN, len \in UartLenArgs :
       \E o \in UartBase_read(backend, UartSt, handle, has_buf, len) :
         /\ Outcome(o, handle)
         /\ last' = [op |-> "uart_read", a |-> handle,
                     b |-> IF has_buf THEN len ELSE -1,
                     ret |-> o.ret, out |-> <<>>]
  /\ UNCHANGED <<restVars, backend, gpioVars, mockUartVars, timerVars, ctxVars,
                 issued, closed_ok>>

hal_uart_available ==
  /\ backend \in {"posix", "esp32"}
  /\ ~halted
  /\ \E handle \in HandleArgs :
       \E o \in UartBase_available(backend, UartSt, handle) :
         /\ Outcome(o, handle)
         /\ last' = [op |-> "uart_available", a |-> handle, b |-> 0,
                     ret |-> o.ret, out |-> <<>>]
  /\ UNCHANGED <<restVars, backend, gpioVars, mockUartVars, timerVars, ctxVars,
                 issued, closed_ok>>

InitUart == backend \in {"posix", "esp32"} /\ InitStatics

NextUart ==
  \/ hal_uart_open
  \/ hal_uart_close
  \/ hal_uart_write
  \/ hal_uart_read
  \/ hal_uart_available

SpecUart == InitUart /\ [][NextUart]_vars

\* C9: a close given a handle that open returned and that has not been closed
\* since returns HAL_OK (or the I/O failure of the driver); a close given a
\* handle already closed with HAL_OK returns HAL_ERR_PARAM
C9_CloseInvalidatesHandle ==
  last.op = "uart_close" =>
    /\ last.b = 1 => (~halted /\ last.ret \in {HAL_OK, HAL_ERR_IO})
    /\ stale => (~halted /\ last.ret = HAL_ERR_PARAM)

\* C10: a write, read or available given a handle that was closed with
\* HAL_OK, no open having returned a handle since, returns an error code and
\* reads no storage that was freed
C10_ClosedHandleRejected ==
  (last.op \in {"uart_write", "uart_read", "uart_available"} /\ stale) =>
    /\ ~halted
    /\ last.ret < 0
    /\ uart_fault = "none"

\* whether a handle that open returned, not closed since, is bound to port p
PortBound(p) ==
  IF backend = "posix"
    THEN \E a \in Addr : uart_heap[a].status = "live" /\ uart_heap[a].port = p
    ELSE /\ p \in DOMAIN uart_init_flags
         /\ uart_init_flags[p]
         /\ (p + 1) \in issued

\* C11: at most one live handle is bound to a port: no open returns a handle
\* for a port to which a handle returned by an earlier open, not closed
\* since, is still bound
C11_ExclusiveHandle ==
  [][(last'.op = "uart_open" /\ last'.ret # nullptr) => ~PortBound(last'.a)]_vars

----------------------------------------------------------------------------
(* Opening a port, any backend.                                            *)

InitAny == backend \in {"mock", "posix", "esp32"} /\ InitStatics

NextOpen ==
  \/ Call_uart_init
  \/ hal_uart_open
  \/ hal_uart_close

SpecOpen == InitAny /\ [][NextOpen]_vars

\* the documented values of data_bits, stop_bits and parity
ValidDataBits == {5, 6, 7, 8}
ValidStopBits == {1, 2}
ValidParity == {0, 1, 2}

\* whether the fields <<baudrate, data_bits, stop_bits, parity>> make a config
\* that open has to accept
ValidConfig(f) ==
  /\ f # <<>>
  /\ f[1] > 0
  /\ f[2] \in ValidDataBits
  /\ f[3] \in ValidStopBits
  /\ f[4] \in ValidParity

\* the number of ports of the backend
MaxPorts ==
  IF backend = "mock" THEN MAX_UART_PORTS
  ELSE IF backend = "posix" THEN posix_max_uart_ports ELSE esp32_max_uart_ports

\* C12: an open given a port outside [0, max_ports), no config, or a config
\* with baudrate <= 0 or data bits / stop bits / parity outside their valid
\* values returns the null handle (OutOfBounds or InvalidArg from the
\* simulated backend) and changes no port state
C12_OpenRejectsBadArguments ==
  [][/\ (/\ last'.op = "uart_open"
         /\ (last'.a \notin 0 .. (MaxPorts - 1) \/ ~ValidConfig(last'.out))) =>
          /\ last'.ret = nullptr
          /\ UNCHANGED <<uart_heap, uart_init_flags>>
     /\ (/\ last'.op = "uart_init"
         /\ (last'.a \notin 0 .. (MaxPorts - 1) \/ last'.b <= 0)) =>
          /\ last'.ret = (IF last'.a \notin 0 .. (MaxPorts - 1)
                            THEN OutOfBounds ELSE InvalidArg)
          /\ UNCHANGED mock_uart]_vars

----------------------------------------------------------------------------
(* Claims about the simulated UART.                                        *)

\* a putc or write call on an opened port that asks to enqueue n >= 1 bytes
TxCall(n) ==
  /\ last'.op \in {"putc", "write"}
  /\ last'.a \in MockPorts
  /\ mock_uart[last'.a].initialized = 1
  /\ last'.b = n
  /\ n >= 1

\* C1: over every sequence of uart_init, putc, write and reset, tx_count of
\* every port stays <= UART_BUFFER_SIZE; a putc or write that has to append a
\* byte while tx_count = UART_BUFFER_SIZE returns Busy (-4) and leaves
\* tx_count at UART_BUFFER_SIZE, and one that returns success has enqueued
\* every byte it was given
C1_TxBounded ==
  [][/\ \A p \in MockPorts : mock_uart'[p].tx_count <= UART_BUFFER_SIZE
     /\ \A n \in 1 .. (UART_BUFFER_SIZE + 44) :
          TxCall(n) =>
            LET before == mock_uart[last'.a].tx_count
                after == mock_uart'[last'.a].tx_count
            IN  IF before + n > UART_BUFFER_SIZE
                  THEN last'.ret = Busy /\ after = UART_BUFFER_SIZE
                  ELSE last'.ret = 0 /\ after = before + n]_vars

\* a putc on a full buffer has just been refused with Busy
C1_Witness ==
  /\ last.op = "putc"
  /\ last.a \in MockPorts
  /\ last.ret = Busy
  /\ mock_uart[last.a].tx_count = UART_BUFFER_SIZE

Min(a, b) == IF a < b THEN a ELSE b

\* C2: on an opened port the bytes handed out by getc and read since the last
\* injection are exactly the injected bytes before the cursor, each once and
\* in injection order; a read(max_len) succeeds with min(max_len, pending)
\* bytes taken at the cursor, hence with 0 bytes once everything is consumed
C2_RxExactlyOnceInOrder ==
  [][/\ \A p \in MockPorts :
          mock_uart'[p].initialized = 1 =>
            /\ mock_uart'[p].rx_pos \in 0 .. Len(rx_injected'[p])
            /\ rx_delivered'[p] = Take(rx_injected'[p], mock_uart'[p].rx_pos)
     /\ (/\ last'.op = "read"
         /\ last'.a \in MockPorts
         /\ mock_uart[last'.a].initialized = 1
         /\ last'.b >= 0) =>
          LET ps == mock_uart[last'.a]
              n == Min(last'.b, ps.rx_count - ps.rx_pos)
          IN  /\ last'.ret = 0
              /\ Len(last'.out) = n
              /\ \A i \in 1 .. n : last'.out[i] = rx_injected[last'.a][ps.rx_pos + i]
              /\ mock_uart'[last'.a].rx_pos = ps.rx_pos + n]_vars

\* every injected byte has been read and a further read of at least one byte
\* has returned success with no bytes
C2_Witness ==
  /\ last.op = "read"
  /\ last.a \in MockPorts
  /\ last.b >= 1
  /\ last.ret = 0
  /\ last.out = <<>>
  /\ Len(rx_injected[last.a]) >= 2
  /\ rx_delivered[last.a] = rx_injected[last.a]

----------------------------------------------------------------------------
(* The simulated UART: opening a port that has been used.                  *)

NextMockUartOpen ==
  \/ Call_uart_init
  \/ Call_uart_putc
  \/ Call_uart_inject_rx
  \/ Call_uart_getc

SpecMockUartOpen == InitMock /\ [][NextMockUartOpen]_vars

\* C13: after a successful uart_init the port is initialized, its transmitted
\* length, pending receive count and cursor are 0, and the requested baudrate
\* is stored, whatever the port held before
C13_OpenClearsPort ==
  [][(last'.op = "uart_init" /\ last'.ret = 0) =>
       LET ps == mock_uart'[last'.a]
       IN  /\ ps.initialized = 1
           /\ ps.baudrate = last'.b
           /\ mock_hal_uart_get_tx_len(mock_uart', last'.a) = 0
           /\ ps.rx_count = 0
           /\ ps.rx_pos = 0]_vars

\* a port that had transmitted a byte and had been given receive bytes, of
\* which none was read, has just been opened again
C13_Witness ==
  /\ last.op = "uart_init"
  /\ last.ret = 0
  /\ last.a \in MockPorts
  /\ tx_appends >= 1
  /\ rx_pops = 0
  /\ mock_uart[last.a].tx_buffer[0] # 0
  /\ mock_uart[last.a].rx_buffer[0] # 0
  /\ mock_uart[last.a].tx_count = 0
  /\ mock_uart[last.a].rx_count = 0

----------------------------------------------------------------------------
(* The simulated UART with no port opened: mock_hal_reset leaves mock_uart *)
(* as it is at start, so these are the states of a port not opened since   *)
(* start or since the last reset.                                          *)

NextMockUartUnopened ==
  \/ Call_uart_putc
  \/ Call_uart_write
  \/ Call_uart_inject_rx
  \/ Call_uart_getc
  \/ Call_uart_read
  \/ mock_hal_reset

SpecMockUartUnopened == InitMock /\ [][NextMockUartUnopened]_vars

\* C14: putc, getc, write and read on an in-range port that is not opened
\* return NotInitialized and leave every port's buffers, counts and cursor
\* as they were
C14_UnopenedNotInitialized ==
  [][(/\ last'.op \in {"putc", "getc", "write", "read"}
      /\ last'.a \in MockPorts
      /\ mock_uart[last'.a].initialized = 0) =>
       /\ last'.ret = NotInitialized
       /\ mock_uart' = mock_uart]_vars

\* a getc on an unopened port that holds injected bytes has been refused
C14_Witness ==
  /\ last.op = "getc"
  /\ last.a \in MockPorts
  /\ last.b = 1
  /\ last.ret = NotInitialized
  /\ mock_uart[last.a].initialized = 0
  /\ mock_uart[last.a].rx_count > mock_uart[last.a].rx_pos

----------------------------------------------------------------------------
(* More claims about the transmit side of the simulated UART.              *)

\* C15: a write of len bytes on an opened port with tx_count + len >
\* UART_BUFFER_SIZE returns Busy; afterwards tx_count = UART_BUFFER_SIZE, the
\* TX buffer holds what it held followed by the first UART_BUFFER_SIZE -
\* tx_count bytes of the input, and nothing else of any port has changed
C15_BusyWriteKeepsPrefix ==
  [][\A n \in 1 .. (UART_BUFFER_SIZE + 44) :
       (/\ TxCall(n)
        /\ last'.op = "write"
        /\ mock_uart[last'.a].tx_count + n > UART_BUFFER_SIZE) =>
         LET before == mock_uart[last'.a]
             after == mock_uart'[last'.a]
         IN  /\ last'.ret = Busy
             /\ after.tx_count = UART_BUFFER_SIZE
             /\ \A i \in 0 .. (UART_BUFFER_SIZE - 1) :
                  after.tx_buffer[i] =
                    IF i < before.tx_count
                      THEN before.tx_buffer[i]
                      ELSE last'.out[i - before.tx_count + 1]
             /\ mock_uart' = [mock_uart EXCEPT
                                ![last'.a].tx_buffer = after.tx_buffer,
                                ![last'.a].tx_count = after.tx_count]]_vars

\* a write that found one byte enqueued filled the buffer and returned Busy:
\* the buffer holds that byte, then the first bytes of the input
C15_Witness ==
  /\ last.op = "write"
  /\ last.a \in MockPorts
  /\ last.ret = Busy
  /\ mock_uart[last.a].tx_count = UART_BUFFER_SIZE
  /\ mock_uart[last.a].tx_buffer[0] = 65
  /\ mock_uart[last.a].tx_buffer[1] = last.out[1]
  /\ mock_uart[last.a].tx_buffer[UART_BUFFER_SIZE - 1] = last.out[UART_BUFFER_SIZE - 1]

\* C16: what mock_hal_uart_get_tx hands back for a port is the bytes that
\* putc and write enqueued since the port's last open, in call order, and
\* its length is their number
C16_ReadBackTransmitted ==
  \A p \in MockPorts :
    /\ mock_hal_uart_get_tx_len(mock_uart, p) = Len(tx_accepted[p])
    /\ mock_hal_uart_get_tx(mock_uart, p) = tx_accepted[p]

\* a port opened at 9600 has taken a byte by putc and then "Hello" by write
C16_Witness ==
  /\ last.op = "write"
  /\ last.a \in MockPorts
  /\ last.ret = 0
  /\ mock_uart[last.a].baudrate = 9600
  /\ mock_hal_uart_get_tx_len(mock_uart, last.a) = 6
  /\ mock_hal_uart_get_tx(mock_uart, last.a) = <<65>> \o Hello

----------------------------------------------------------------------------
(* More claims about the receive side of the simulated UART.               *)

\* C18: a getc (with a place for the byte) on an opened port returns Timeout
\* and changes nothing when no received byte is pending; otherwise it returns
\* success with the byte at the cursor and moves the cursor by one, changing
\* nothing else
C18_GetcTimeoutOrByte ==
  [][(/\ last'.op = "getc"
      /\ last'.b = 1
      /\ last'.a \in MockPorts
      /\ mock_uart[last'.a].initialized = 1) =>
       LET ps == mock_uart[last'.a]
       IN  IF ps.rx_pos >= ps.rx_count
             THEN /\ last'.ret = Timeout
                  /\ mock_uart' = mock_uart
             ELSE /\ last'.ret = 0
                  /\ last'.out = <<ps.rx_buffer[ps.rx_pos]>>
                  /\ mock_uart' = [mock_uart EXCEPT
                                     ![last'.a].rx_pos = ps.rx_pos + 1]]_vars

\* a getc has found nothing pending on a port whose injected bytes were all
\* read
C18_Witness ==
  /\ last.op = "getc"
  /\ last.b = 1
  /\ last.a \in MockPorts
  /\ mock_uart[last.a].initialized = 1
  /\ last.ret = Timeout
  /\ Len(rx_injected[last.a]) >= 2
  /\ rx_delivered[last.a] = rx_injected[last.a]

----------------------------------------------------------------------------
(* Timer calls: the simulated backend's v4_hal_* functions and, on ESP32,  *)
(* the extern "C" bridge (hal_timer_bridge.cpp) over TimerBase.            *)

notTimerVars == <<backend, gpioVars, mockUartVars, ctxVars, handleVars, restVars>>

mock_hal_set_millis ==
  /\ backend = "mock"
  /\ delays < MaxDelays
  /\ \E ms \in SetMillisArgs :
       /\ mock_millis_counter' = ms
       /\ last' = [op |-> "set_millis", a |-> ms, b |-> 0, ret |-> 0, out |-> <<>>]
  /\ delays' = delays + 1
  /\ UNCHANGED <<notTimerVars, mock_micros_counter, esp_timer>>

mock_hal_set_micros ==
  /\ backend = "mock"
  /\ delays < MaxDelays
  /\ \E us \in SetMicrosArgs :
       /\ mock_micros_counter' = us
       /\ last' = [op |-> "set_micros", a |-> us, b |-> 0, ret |-> 0, out |-> <<>>]
  /\ delays' = delays + 1
  /\ UNCHANGED <<notTimerVars, mock_millis_counter, esp_timer>>

Call_millis ==
  /\ backend = "mock"
  /\ last' = [op |-> "millis", a |-> 0, b |-> 0, ret |-> 0,
              out |-> <<v4_hal_millis(MockTimer)>>]
  /\ UNCHANGED <<notTimerVars, timerVars>>

Call_micros ==
  /\ backend = "mock"
  /\ last' = [op |-> "micros", a |-> 0, b |-> 0, ret |-> 0,
              out |-> <<v4_hal_micros(MockTimer)>>]
  /\ UNCHANGED <<notTimerVars, timerVars>>

\* out: millis() and micros() read just before the call
Call_delay_ms ==
  /\ backend = "mock"
  /\ delays < MaxDelays
  /\ \E ms \in MsArgs :
       LET t == v4_hal_delay_ms(MockTimer, ms)
       IN  /\ mock_millis_counter' = t.millis
           /\ mock_micros_counter' = t.micros
           /\ last' = [op |-> "delay_ms", a |-> ms, b |-> 0, ret |-> 0,
                       out |-> <<v4_hal_millis(MockTimer), v4_hal_micros(MockTimer)>>]
  /\ delays' = delays + 1
  /\ UNCHANGED <<notTimerVars, esp_timer>>

\* out: micros() read just before the call and just after it
Call_delay_us ==
  /\ backend = "mock"
  /\ delays < MaxDelays
  /\ \E us \in UsArgs :
       LET t == v4_hal_delay_us(MockTimer, us)
       IN  /\ mock_millis_counter' = t.millis
           /\ mock_micros_counter' = t.micros
           /\ last' = [op |-> "delay_us", a |-> us, b |-> 0, ret |-> 0,
                       out |-> <<v4_hal_micros(MockTimer), v4_hal_micros(t)>>]
  /\ delays' = delays + 1
  /\ UNCHANGED <<notTimerVars, esp_timer>>

hal_millis ==
  /\ backend = "esp32"
  /\ last' = [op |-> "millis", a |-> 0, b |-> 0, ret |-> 0,
              out |-> <<Esp32Platform_millis_impl(esp_timer)>>]
  /\ UNCHANGED <<notTimerVars, timerVars>>

hal_micros ==
  /\ backend = "esp32"
  /\ last' = [op |-> "micros", a |-> 0, b |-> 0, ret |-> 0,
              out |-> <<Esp32Platform_micros_impl(esp_timer)>>]
  /\ UNCHANGED <<notTimerVars, timerVars>>

hal_delay_ms ==
  /\ backend = "esp32"
  /\ delays < MaxDelays
  /\ \E ms \in Esp32MsArgs : \E elapsed \in Esp32Platform_delay_ms_impl(ms) :
       /\ esp_timer' = esp_timer + elapsed
       /\ last' = [op |-> "delay_ms", a |-> U32(ms), b |-> 0, ret |-> 0,
                   out |-> <<Esp32Platform_millis_impl(esp_timer),
                             Esp32Platform_micros_impl(esp_timer)>>]
  /\ delays' = delays + 1
  /\ UNCHANGED <<notTimerVars, mockTimerVars>>

hal_delay_us ==
  /\ backend = "esp32"
  /\ delays < MaxDelays
  /\ \E us \in Esp32UsArgs : \E elapsed \in Esp32Platform_delay_us_impl(us) :
       /\ esp_timer' = esp_timer + elapsed
       /\ last' = [op |-> "delay_us", a |-> U32(us), b |-> 0, ret |-> 0,
                   out |-> <<Esp32Platform_micros_impl(esp_timer),
                             Esp32Platform_micros_impl(esp_timer + elapsed)>>]
  /\ delays' = delays + 1
  /\ UNCHANGED <<notTimerVars, mockTimerVars>>

InitTimer == backend \in {"mock", "esp32"} /\ InitStatics

NextTimer ==
  \/ mock_hal_set_millis
  \/ mock_hal_set_micros
  \/ Call_millis
  \/ Call_micros
  \/ Call_delay_ms
  \/ Call_delay_us
  \/ hal_millis
  \/ hal_micros
  \/ hal_delay_ms
  \/ hal_delay_us

SpecTimer == InitTimer /\ [][NextTimer]_vars

----------------------------------------------------------------------------
(* Timer claims, checked under SpecTimer.  Sums are taken in Wide digits,  *)
(* which hold every value that occurs without dropping a carry.            *)

Wide == Len(Zero64) + 1

Sum(x, y) == AddN(Ext(x, Wide), Ext(y, Wide), Wide)
Times1000(x) == MulN(Ext(x, Wide), 1000, Wide)
Mod2_32(z) == Ext(SubSeq(z, 1, 2), Wide)
Mod2_64(z) == Ext(SubSeq(z, 1, 4), Wide)

\* C19 as stated: on the simulated backend delay_ms(ms) leaves millis() at
\* (old millis + ms) mod 2^32 and micros() at old micros + 1000 * ms, for
\* every starting value of the clock, and changes nothing else
C19_DelayMsExact ==
  [][(backend = "mock" /\ last'.op = "delay_ms") =>
       /\ Ext(mock_millis_counter', Wide) = Mod2_32(Sum(mock_millis_counter, last'.a))
       /\ Ext(mock_micros_counter', Wide) = Sum(mock_micros_counter, Times1000(last'.a))
       /\ UNCHANGED <<notTimerVars, esp_timer>>]_vars

\* C19: on the simulated backend delay_ms(ms) leaves millis() at
\* (old millis + ms) mod 2^32 and micros() at (old micros + 1000 * ms)
\* mod 2^64, and changes nothing else
C19_DelayMsModular ==
  [][(backend = "mock" /\ last'.op = "delay_ms") =>
       /\ Ext(mock_millis_counter', Wide) = Mod2_32(Sum(mock_millis_counter, last'.a))
       /\ Ext(mock_micros_counter', Wide) =
            Mod2_64(Sum(mock_micros_counter, Times1000(last'.a)))
       /\ UNCHANGED <<notTimerVars, esp_timer>>]_vars

\* a delay_ms has taken the millisecond counter past 2^32 - 1 and the
\* microsecond counter past 2^64 - 1
C19_Witness ==
  /\ backend = "mock"
  /\ last.op = "delay_ms"
  /\ Less(mock_millis_counter, last.out[1])
  /\ Less(mock_micros_counter, last.out[2])

\* C20: after delay_us(us) the time elapsed between a micros() read before
\* the call and one read after it is at least us, on the simulated backend
\* and on ESP32
C20_DelayUsAtLeast ==
  last.op = "delay_us" =>
    ~Less(SubN(last.out[2], last.out[1], 4), Ext(last.a, 4))

----------------------------------------------------------------------------
(* The clock with the test-only setters left out: only delays move it.     *)

NextClock ==
  \/ Call_millis
  \/ Call_micros
  \/ Call_delay_ms
  \/ Call_delay_us
  \/ hal_millis
  \/ hal_micros
  \/ hal_delay_ms
  \/ hal_delay_us

SpecClock == InitTimer /\ [][NextClock]_vars

\* what millis() and micros() return in the current state
ClockMillis ==
  IF backend = "mock" THEN v4_hal_millis(MockTimer)
  ELSE Esp32Platform_millis_impl(esp_timer)
ClockMicros ==
  IF backend = "mock" THEN v4_hal_micros(MockTimer)
  ELSE Esp32Platform_micros_impl(esp_timer)

\* the milliseconds a delay call asks the simulated clock to advance by
MillisAdvance(call) ==
  IF call.op = "delay_ms" THEN call.a ELSE Div32(call.a, 1000)

\* C21 as stated: with only delay_ms and delay_us moving the clock, a later
\* millis() reading is never below an earlier one, and likewise for micros()
C21_ClockNeverDecreases ==
  [][/\ ~Less(ClockMillis', ClockMillis)
     /\ ~Less(ClockMicros', ClockMicros)]_vars

\* C21: with only delay_ms and delay_us moving the clock, micros() never
\* decreases, and millis() decreases only when a delay of the simulated
\* backend carries the 32-bit counter past 2^32 - 1, where it continues at
\* (old millis + advance) mod 2^32
C21_ClockMonotonicUpToWrap ==
  [][/\ ~Less(ClockMicros', ClockMicros)
     /\ Less(ClockMillis', ClockMillis) =>
          /\ backend = "mock"
          /\ last'.op \in {"delay_ms", "delay_us"}
          /\ Sum(ClockMillis, MillisAdvance(last')) # Ext(ClockMillis', Wide)
          /\ Mod2_32(Sum(ClockMillis, MillisAdvance(last'))) = Ext(ClockMillis', Wide)]_vars

\* a delay_ms has carried millis past 2^32 - 1 while micros went up
C21_Witness ==
  /\ backend = "mock"
  /\ last.op = "delay_ms"
  /\ delays >= 2
  /\ Less(ClockMillis, last.out[1])
  /\ Less(last.out[2], ClockMicros)

----------------------------------------------------------------------------
(* elapsed_ms over the clock.                                              *)

\* 0xFFFFFFF6
NearMax == <<65526, 65535>>

StartArgs == {U32(0), U32(1000), NearMax, UINT32_MAX}

\* start_ms is one of StartArgs or, right after a delay_ms, the millis()
\* reading taken just before that delay; out: the result and millis() now
elapsed_ms ==
  /\ \E start_ms \in StartArgs \cup (IF last.op = "delay_ms" THEN {last.out[1]} ELSE {}) :
       last' = [op |-> "elapsed_ms", a |-> start_ms, b |-> 0, ret |-> 0,
                out |-> <<TimerBase_elapsed_ms(ClockMillis, start_ms), ClockMillis>>]
  /\ UNCHANGED <<notTimerVars, timerVars>>

NextElapsed == NextTimer \/ elapsed_ms

SpecElapsed == InitTimer /\ [][NextElapsed]_vars

\* C22: elapsed_ms(start) returns (now - start) mod 2^32, that is the 32-bit
\* value r with (start + r) mod 2^32 = now; the wrapped branch's sum
\* (0xFFFFFFFF - start) + now + 1 stays below 2^32; and right after
\* start = millis(); delay_ms(d) on the simulated backend it returns d
C22_ElapsedMsWraps ==
  [][last'.op = "elapsed_ms" =>
       LET r == last'.out[1]
           now == last'.out[2]
           start == last'.a
       IN  /\ now = ClockMillis
           /\ Len(r) = 2
           /\ Mod2_32(Sum(start, r)) = Ext(now, Wide)
           /\ Less(now, start) =>
                Sum(Sum(SubN(UINT32_MAX, start, 2), now), U32(1)) = Ext(r, Wide)
           /\ (backend = "mock" /\ last.op = "delay_ms" /\ start = last.out[1]) =>
                r = last.a]_vars

\* elapsed_ms has been asked about a start near 0xFFFFFFFF with the clock
\* near 0 and returned the small difference
C22_Witness ==
  /\ last.op = "elapsed_ms"
  /\ last.a = NearMax
  /\ last.out[2] = U32(100)
  /\ last.out[1] = U32(110)

----------------------------------------------------------------------------
(* Nested critical sections on one call path: enter; enter; exit; exit     *)
(* through the bridge (hal_critical_bridge.cpp) over CriticalImpl.  The    *)
(* path may write pins while it is inside.                                 *)

\* where the path is after a critical_enter has returned / after an exit
AfterEnter(at) == IF at = "idle" THEN "in_critical" ELSE "nested"
AfterExit(at) == IF at = "nested" THEN "unnested" ELSE "idle"

\* pthread_mutex_lock(&critical_mutex) by context t.  The mutex has the
\* default type: locking it again from the context that holds it is undefined,
\* and either never returns or returns with the mutex still held
PosixPlatform_critical_enter_impl(t) ==
  /\ critical_mutex \in {"none", t}
  /\ \/ /\ critical_mutex' = t
        /\ pc' = [pc EXCEPT ![t] = AfterEnter(pc[t])]
     \/ /\ critical_mutex = t
        /\ critical_mutex' = t
        /\ pc' = [pc EXCEPT ![t] = "blocked"]
  /\ UNCHANGED critical_spinlock

\* pthread_mutex_unlock(&critical_mutex)
PosixPlatform_critical_exit_impl(t) ==
  /\ critical_mutex' = "none"
  /\ pc' = [pc EXCEPT ![t] = AfterExit(pc[t])]
  /\ UNCHANGED critical_spinlock

\* portENTER_CRITICAL(&critical_spinlock): taken by its owner again, the
\* spinlock counts the nesting
Esp32Platform_critical_enter_impl(t) ==
  /\ critical_spinlock.owner \in {"none", t}
  /\ critical_spinlock' = [owner |-> t, count |-> critical_spinlock.count + 1]
  /\ pc' = [pc EXCEPT ![t] = AfterEnter(pc[t])]
  /\ UNCHANGED critical_mutex

\* portEXIT_CRITICAL(&critical_spinlock)
Esp32Platform_critical_exit_impl(t) ==
  /\ critical_spinlock' =
       IF critical_spinlock.count = 1 THEN portMUX_INITIALIZER_UNLOCKED
       ELSE [critical_spinlock EXCEPT !.count = @ - 1]
  /\ pc' = [pc EXCEPT ![t] = AfterExit(pc[t])]
  /\ UNCHANGED critical_mutex

CriticalImpl_critical_enter(t) ==
  /\ backend \in {"posix", "esp32"}
  /\ pc[t] \in {"idle", "in_critical"}
  /\ IF backend = "posix" THEN PosixPlatform_critical_enter_impl(t)
     ELSE Esp32Platform_critical_enter_impl(t)
  /\ last' = [op |-> "critical_enter", a |-> 0, b |-> 0, ret |-> 0, out |-> <<>>]
  /\ UNCHANGED <<restVars, backend, gpioVars, mockUartVars, timerVars, handleVars, tog>>

CriticalImpl_critical_exit(t) ==
  /\ backend \in {"posix", "esp32"}
  /\ pc[t] \in {"nested", "unnested"}
  /\ IF backend = "posix" THEN PosixPlatform_critical_exit_impl(t)
     ELSE Esp32Platform_critical_exit_impl(t)
  /\ last' = [op |-> "critical_exit", a |-> 0, b |-> 0, ret |-> 0, out |-> <<>>]
  /\ UNCHANGED <<restVars, backend, gpioVars, mockUartVars, timerVars, handleVars, tog>>

\* one more call on the path: the next enter or exit of enter; enter; exit; exit
NestedStep == CriticalImpl_critical_enter("main") \/ CriticalImpl_critical_exit("main")

InitNested == backend \in {"posix", "esp32"} /\ InitStatics

NextNested ==
  \/ main_gpio_mode
  \/ guarded_gpio_write("main")
  \/ CriticalImpl_critical_enter("main")
  \/ CriticalImpl_critical_exit("main")

\* a call that can return does return, and the path goes on to its next call
SpecNested == InitNested /\ [][NextNested]_vars /\ WF_vars(NestedStep)

\* C23: a path that has entered the critical section and nests it (enter;
\* enter; exit; exit) always gets back out: the inner enter returns and the
\* path reaches its final exit
C23_NestedPathCompletes ==
  (pc["main"] = "in_critical") ~> (pc["main"] = "idle")

----------------------------------------------------------------------------
(* Capabilities (src/common/hal_capabilities.cpp) and the lifecycle calls  *)
(* (hal_core.cpp).                                                         *)

\* the address of the function-local static default_caps
default_caps_addr == 1

default_caps ==
  [gpio_count |-> 0, uart_count |-> 0, spi_count |-> 0, i2c_count |-> 0,
   has_adc |-> 0, has_dac |-> 0, has_pwm |-> 0, has_rtc |-> 0, has_dma |-> 0,
   reserved |-> 0]

\* variant: the descriptor platform_posix.cpp defines under C linkage
hal_platform_capabilities_PosixCaps ==
  [addr |-> default_caps_addr,
   caps |-> [default_caps EXCEPT !.gpio_count = 32, !.uart_count = 4]]

\* the weak definition of hal_capabilities.cpp.  It has C++ linkage (the
\* header does not declare it), so the extern "C" function of the same name
\* in platform_posix.cpp is another symbol and does not replace it
hal_platform_capabilities == [addr |-> default_caps_addr, caps |-> default_caps]

hal_get_capabilities ==
  /\ last' = [op |-> "get_capabilities", a |-> 0, b |-> 0,
              ret |-> hal_platform_capabilities.addr,
              out |-> <<hal_platform_capabilities.caps>>]
  /\ UNCHANGED <<notTimerVars, timerVars>>

\* the weak hooks hal_platform_init / _reset / _deinit: nothing overrides them
hal_platform_init == HAL_OK
hal_platform_reset == HAL_OK

hal_init ==
  /\ backend \in {"posix", "esp32"}
  /\ last' = [op |-> "init", a |-> 0, b |-> 0, ret |-> hal_platform_init, out |-> <<>>]
  /\ UNCHANGED <<notTimerVars, timerVars>>

hal_reset ==
  /\ backend \in {"posix", "esp32"}
  /\ last' = [op |-> "hal_reset", a |-> 0, b |-> 0, ret |-> hal_platform_reset, out |-> <<>>]
  /\ UNCHANGED <<notTimerVars, timerVars>>

hal_deinit ==
  /\ backend \in {"posix", "esp32"}
  /\ last' = [op |-> "deinit", a |-> 0, b |-> 0, ret |-> 0, out |-> <<>>]
  /\ UNCHANGED <<notTimerVars, timerVars>>

NextCaps ==
  \/ hal_get_capabilities
  \/ hal_init
  \/ hal_reset
  \/ hal_deinit
  \/ mock_hal_reset
  \/ Call_gpio_init
  \/ Call_uart_init
  \/ hal_uart_open
  \/ hal_delay_ms

SpecCaps == InitAny /\ [][NextCaps]_vars

CapsFields ==
  {"gpio_count", "uart_count", "spi_count", "i2c_count", "has_adc", "has_dac",
   "has_pwm", "has_rtc", "has_dma", "reserved"}

\* C24: get_capabilities returns a non-null pointer, and whatever GPIO, UART,
\* timer, init, reset and deinit calls came before, the descriptor it points
\* to is the same one, with every count and feature flag zero
C24_CapabilitiesFixed ==
  last.op = "get_capabilities" =>
    /\ last.ret # nullptr
    /\ last.ret = default_caps_addr
    /\ DOMAIN last.out[1] = CapsFields
    /\ \A f \in CapsFields : last.out[1][f] = 0

\* the descriptor has been read after pins, ports or the clock were used
C24_Witness ==
  /\ last.op = "get_capabilities"
  /\ last.out[1].gpio_count = 0
  /\ \/ backend = "mock" /\ mock_uart # MockUartZero /\ mock_gpio # MockGpioZero
     \/ backend = "posix" /\ issued # {}
     \/ backend = "esp32" /\ issued # {} /\ esp_timer > 0

----------------------------------------------------------------------------
(* The failure policy of the UART handle calls, checked under SpecUart.    *)

\* C25: a close, write, read or available given a null handle, a handle that
\* open has not returned (or that was closed since), or a null buffer returns
\* NotInitialized or InvalidArg, runs no backend code on it (nothing undefined
\* is executed, the process is not aborted) and changes no port state
C25_InvalidHandleNotExecuted ==
  [][(/\ last'.op \in {"uart_close", "uart_write", "uart_read", "uart_available"}
      /\ \/ last'.a = nullptr
         \/ last'.a \notin issued
         \/ last'.op \in {"uart_write", "uart_read"} /\ last'.b = -1) =>
       /\ last'.ret \in {NotInitialized, HAL_ERR_PARAM}
       /\ ~halted'
       /\ uart_fault' = "none"
       /\ UNCHANGED <<uart_heap, uart_init_flags>>]_vars

----------------------------------------------------------------------------
(* Reading a pin back, checked under SpecGpio.                             *)

\* C26: a read of a configured in-range pin succeeds whatever the pin's mode,
\* reports the pin's stored value and changes no pin's mode, value or
\* initialized flag; the value reported right after a successful configure of
\* that pin is Low, and right after a successful write of v to it is v
C26_ReadReturnsStoredValue ==
  [][\A p \in Pins :
       (last'.op = "read" /\ last'.a = p /\ last'.b = 1 /\ pin_cfg[p] # "None") =>
         /\ last'.ret = 0
         /\ last'.out = <<PinValue(p)>>
         /\ GpioState' = GpioState
         /\ pin_cfg' = pin_cfg
         /\ (last.op = "configure" /\ last.a = p /\ last.ret = 0) => last'.out = <<0>>
         /\ (last.op = "write" /\ last.a = p /\ last.ret = 0) =>
              last'.out = <<IF last.b # 0 THEN 1 ELSE 0>>]_vars

----------------------------------------------------------------------------
(* Reset of the simulated backend.  The runs start in states the calls     *)
(* below have produced from the state at program start: the composition of *)
(* the GPIO, UART and timer calls named with each of them.                 *)

\* v4_hal_gpio_init(0, OUTPUT); v4_hal_gpio_init(31, INPUT_PULLUP);
\* v4_hal_gpio_write(0, 1)
GpioUsed ==
  v4_hal_gpio_write(
    v4_hal_gpio_init(
      v4_hal_gpio_init(MockGpioZero, 0, V4_HAL_GPIO_MODE_OUTPUT).st,
      MAX_GPIO_PINS - 1, V4_HAL_GPIO_MODE_INPUT_PULLUP).st,
    0, 1).st

GpioScenes ==
  {[gpio |-> MockGpioZero, cfg |-> NoPinCfg],
   [gpio |-> GpioUsed,
    cfg |-> [NoPinCfg EXCEPT ![0] = MockModeName(V4_HAL_GPIO_MODE_OUTPUT),
                             ![MAX_GPIO_PINS - 1] =
                               MockModeName(V4_HAL_GPIO_MODE_INPUT_PULLUP)]]}

\* v4_hal_uart_init(0, 9600); v4_hal_uart_putc(0, 'A');
\* mock_hal_uart_inject_rx(0, "Hello", 5); v4_hal_uart_getc(0, &c)
UartUsed ==
  v4_hal_uart_getc(
    mock_hal_uart_inject_rx(
      v4_hal_uart_putc(v4_hal_uart_init(MockUartZero, 0, 9600).st, 0, 65).st,
      0, Hello, 5),
    0, TRUE).st

UartScenes ==
  {[uart |-> MockUartZero, accepted |-> NoBytes, injected |-> NoBytes,
    delivered |-> NoBytes, appends |-> 0, pops |-> 0],
   [uart |-> UartUsed,
    accepted |-> [NoBytes EXCEPT ![0] = <<65>>],
    injected |-> [NoBytes EXCEPT ![0] = Hello],
    delivered |-> [NoBytes EXCEPT ![0] = <<Hello[1]>>],
    appends |-> 1, pops |-> 1]}

\* nothing; v4_hal_delay_ms(100); mock_hal_set_millis(UINT32_MAX) and
\* v4_hal_delay_us(1999)
TimerScenes ==
  {[t |-> [millis |-> Zero32, micros |-> Zero64], n |-> 0],
   [t |-> v4_hal_delay_ms([millis |-> Zero32, micros |-> Zero64], U32(100)), n |-> 1],
   [t |-> v4_hal_delay_us([millis |-> UINT32_MAX, micros |-> Zero64], U32(1999)),
    n |-> 2]}

InitReset ==
  /\ backend = "mock"
  /\ uarts = NoUarts
  /\ open_rets = NoHandleCalls
  /\ close_calls = NoHandleCalls
  /\ \E g \in GpioScenes : mock_gpio = g.gpio /\ pin_cfg = g.cfg
  /\ \E u \in UartScenes :
       /\ mock_uart = u.uart
       /\ tx_accepted = u.accepted
       /\ rx_injected = u.injected
       /\ rx_delivered = u.delivered
       /\ tx_appends = u.appends
       /\ rx_pops = u.pops
  /\ \E c \in TimerScenes :
       /\ mock_millis_counter = c.t.millis
       /\ mock_micros_counter = c.t.micros
       /\ delays = c.n
  /\ gpio_states = BitmapZero
  /\ gpio_modes = BitmapZero
  /\ esp_timer = 0
  /\ posix_clock = Zero64
  /\ critical_mutex = "none"
  /\ critical_spinlock = portMUX_INITIALIZER_UNLOCKED
  /\ pc = [t \in Threads |-> "idle"]
  /\ tog = [t \in Threads |-> NoToggle]
  /\ uart_heap = HeapEmpty
  /\ uart_init_flags = FlagsClear
  /\ issued = {}
  /\ closed_ok = {}
  /\ stale = FALSE
  /\ uart_fault = "none"
  /\ halted = FALSE
  /\ last = NoCall

\* v4_hal_system_reset(): mock_hal_reset()
v4_hal_system_reset ==
  /\ backend = "mock"
  /\ mock_gpio' = MockGpioZero
  /\ mock_uart' = MockUartZero
  /\ mock_millis_counter' = Zero32
  /\ mock_micros_counter' = Zero64
  /\ pin_cfg' = NoPinCfg
  /\ rx_injected' = NoBytes
  /\ rx_delivered' = NoBytes
  /\ tx_accepted' = NoBytes
  /\ last' = [NoCall EXCEPT !.op = "system_reset"]
  /\ UNCHANGED <<restVars, backend, ctxVars, handleVars, gpio_states, gpio_modes, tx_appends, rx_pops,
                 esp_timer, delays>>

NextReset ==
  \/ mock_hal_reset
  \/ v4_hal_system_reset
  \/ Call_gpio_write
  \/ Call_gpio_read
  \/ Call_uart_putc
  \/ Call_uart_getc
  \/ Call_millis
  \/ Call_micros

SpecReset == InitReset /\ [][NextReset]_vars

\* C27: a reset of the simulated backend leaves every pin uninitialized with
\* value 0, every port uninitialized with nothing to send and nothing
\* received, and both counters at 0: the state of program start; a GPIO, UART
\* or timer call made right after it answers as it does at program start
C27_ResetRestoresStart ==
  [][/\ last'.op \in {"reset", "system_reset"} =>
          /\ \A p \in MockPins :
               mock_gpio'[p].initialized = 0 /\ mock_gpio'[p].value = 0
          /\ \A u \in MockPorts :
               /\ mock_uart'[u].initialized = 0
               /\ mock_uart'[u].tx_count = 0
               /\ mock_uart'[u].rx_count = 0
               /\ mock_uart'[u].rx_pos = 0
          /\ mock_hal_uart_get_tx(mock_uart', 0) = <<>>
          /\ mock_millis_counter' = U32(0)
          /\ mock_micros_counter' = Ext(U32(0), 4)
          /\ mock_gpio' = MockGpioZero
          /\ mock_uart' = MockUartZero
     /\ last.op \in {"reset", "system_reset"} =>
          /\ (last'.op \in {"read", "write"} /\ last'.a \in MockPins) =>
               last'.ret = NotInitialized
          /\ (last'.op \in {"putc", "getc"} /\ last'.a \in MockPorts) =>
               last'.ret = NotInitialized
          /\ last'.op = "millis" => last'.out = <<U32(0)>>
          /\ last'.op = "micros" => last'.out = <<Ext(U32(0), 4)>>]_vars

\* after pins, a port and the clock had been used, a reset was made and a
\* getc of the port then found it unopened
C27_Witness ==
  /\ last.op = "getc"
  /\ last.a = 0
  /\ last.ret = NotInitialized
  /\ tx_appends >= 1
  /\ rx_pops >= 1
  /\ delays >= 1
  /\ mock_gpio = MockGpioZero
  /\ mock_millis_counter = Zero32

----------------------------------------------------------------------------
(* The scoped Uart wrappers: Uart<Platform> (uart_impl.hpp) and            *)
(* v4::hal::Uart (hal.hpp).  Their move constructor, move assignment and   *)
(* destructor are the same code; the constructors differ.                  *)

\* at most this many opens by wrappers succeed in a run
MaxOpens == 2

ScopedPortArgs == {-1, 0, 1}

RECURSIVE Total(_, _)
Total(f, S) ==
  IF S = {} THEN 0
  ELSE LET h == CHOOSE x \in S : TRUE IN f[h] + Total(f, S \ {h})

\* what a wrapper's call of open does with the outcome o
ScopedOpen(o) ==
  /\ Outcome(o, nullptr)
  /\ issued' = IF o.ret # nullptr THEN issued \cup {o.ret} ELSE issued
  /\ closed_ok' = IF o.ret # nullptr THEN {} ELSE closed_ok
  /\ open_rets' = IF o.ret # nullptr
                    THEN [open_rets EXCEPT ![o.ret] = @ + 1]
                    ELSE open_rets
  /\ UNCHANGED close_calls

\* a wrapper's call of close on handle h
ScopedClose(h) ==
  \E o \in UartBase_close(backend, UartSt, h) :
    LET closed == ~o.halted /\ o.ret = HAL_OK /\ h \in issued
    IN  /\ Outcome(o, h)
        /\ issued' = IF closed THEN issued \ {h} ELSE issued
        /\ closed_ok' = IF closed THEN closed_ok \cup {h} ELSE closed_ok
        /\ close_calls' = [close_calls EXCEPT ![h] = @ + 1]
        /\ UNCHANGED open_rets

\* no call reaches open or close
NoScopedCall == UNCHANGED <<handleVars, open_rets, close_calls>>

\* variant: the source keeps its handle
Uart_move_KeepsSource(objs, dst, src) ==
  [objs EXCEPT ![dst] = [life |-> "alive", cls |-> objs[src].cls,
                         handle_ |-> objs[src].handle_]]

\* handle_(other.handle_) / handle_ = other.handle_; other.handle_ = nullptr
Uart_move(objs, dst, src) ==
  [[objs EXCEPT ![dst] = [life |-> "alive", cls |-> objs[src].cls,
                          handle_ |-> objs[src].handle_]]
     EXCEPT ![src].handle_ = nullptr]

\* Uart<Platform>::Uart(port, config): handle_(UartBase<Platform>::open(...));
\* last.ret is the handle the object holds
Uart_Uart ==
  /\ backend \in {"posix", "esp32"}
  /\ ~halted
  /\ Total(open_rets, HandleValues) < MaxOpens
  /\ \E s \in UartSlots, port \in ScopedPortArgs, has_config \in BOOLEAN :
       /\ uarts[s].life = "none"
       /\ \E o \in UartBase_open(backend, UartSt, port, has_config) :
            /\ ScopedOpen(o)
            /\ uarts' = [uarts EXCEPT ![s] = [life |-> "alive", cls |-> "Uart<Platform>",
                                              handle_ |-> o.ret]]
            /\ last' = [op |-> "Uart", a |-> 0, b |-> 0, ret |-> o.ret, out |-> <<>>]
  /\ UNCHANGED <<backend, gpioVars, mockUartVars, timerVars, ctxVars>>

\* v4::hal::Uart::Uart(port, config): handle_ = hal_uart_open(port, &config);
\* if (!handle_) throw Error(HAL_ERR_NODEV), and no object comes to exist
v4_hal_Uart ==
  /\ backend \in {"posix", "esp32"}
  /\ ~halted
  /\ Total(open_rets, HandleValues) < MaxOpens
  /\ \E s \in UartSlots, port \in ScopedPortArgs :
       /\ uarts[s].life = "none"
       /\ \E o \in UartBase_open(backend, UartSt, port, TRUE) :
            /\ ScopedOpen(o)
            /\ uarts' = IF o.ret = nullptr
                          THEN uarts
                          ELSE [uarts EXCEPT ![s] = [life |-> "alive", cls |-> "v4::hal::Uart",
                                                     handle_ |-> o.ret]]
            /\ last' = [op |-> IF o.ret = nullptr THEN "throw" ELSE "v4::hal::Uart",
                        a |-> 0, b |-> 0,
                        ret |-> IF o.ret = nullptr THEN HAL_ERR_NODEV ELSE o.ret,
                        out |-> <<>>]
  /\ UNCHANGED <<backend, gpioVars, mockUartVars, timerVars, ctxVars>>

\* Uart(Uart&& other) of either class; last.ret is the handle that moved
Uart_move_ctor ==
  /\ backend \in {"posix", "esp32"}
  /\ ~halted
  /\ \E s \in UartSlots, other \in UartSlots :
       /\ uarts[s].life = "none"
       /\ uarts[other].life = "alive"
       /\ uarts' = Uart_move(uarts, s, other)
       /\ last' = [op |-> "move", a |-> 0, b |-> 0, ret |-> uarts[other].handle_,
                   out |-> <<>>]
  /\ NoScopedCall
  /\ UNCHANGED <<backend, gpioVars, mockUartVars, timerVars, ctxVars>>

\* operator=(Uart&& other) of either class; last.ret is the handle the object
\* held before
Uart_move_assign ==
  /\ backend \in {"posix", "esp32"}
  /\ ~halted
  /\ \E s \in UartSlots, other \in UartSlots :
       /\ uarts[s].life = "alive"
       /\ uarts[other].life = "alive"
       /\ uarts[s].cls = uarts[other].cls
       /\ IF s # other
            THEN /\ IF uarts[s].handle_ # nullptr
                      THEN ScopedClose(uarts[s].handle_)
                      ELSE NoScopedCall
                 /\ uarts' = Uart_move(uarts, s, other)
            ELSE /\ NoScopedCall
                 /\ UNCHANGED uarts
       /\ last' = [op |-> "move_assign", a |-> 0, b |-> 0, ret |-> uarts[s].handle_,
                   out |-> <<>>]
  /\ UNCHANGED <<backend, gpioVars, mockUartVars, timerVars, ctxVars>>

\* ~Uart() of either class: if (handle_) close(handle_); last.ret is handle_
Uart_dtor ==
  /\ backend \in {"posix", "esp32"}
  /\ ~halted
  /\ \E s \in UartSlots :
       /\ uarts[s].life = "alive"
       /\ IF uarts[s].handle_ # nullptr
            THEN ScopedClose(uarts[s].handle_)
            ELSE NoScopedCall
       /\ uarts' = [uarts EXCEPT ![s] = NoUart]
       /\ last' = [op |-> "dtor", a |-> 0, b |-> 0, ret |-> uarts[s].handle_, out |-> <<>>]
  /\ UNCHANGED <<backend, gpioVars, mockUartVars, timerVars, ctxVars>>

InitScoped == backend \in {"posix", "esp32"} /\ InitStatics

NextScoped ==
  \/ Uart_Uart
  \/ v4_hal_Uart
  \/ Uart_move_ctor
  \/ Uart_move_assign
  \/ Uart_dtor

SpecScoped == InitScoped /\ [][NextScoped]_vars

\* how many objects alive hold handle h
Holders(h) == Cardinality({s \in UartSlots : uarts[s].life = "alive" /\ uarts[s].handle_ = h})

\* C28: over every sequence of constructions, moves, move assignments (of an
\* object to itself too) and destructions of the scoped Uart objects, a handle
\* is passed to close never more often than open has returned it, the opens
\* not yet closed are exactly those objects alive hold, so that once every
\* object is destroyed each handle was closed once per open that returned it;
\* the null handle of a failed open is never passed to close
C28_ClosedExactlyOnce ==
  /\ close_calls[nullptr] = 0
  /\ \A h \in HandleValues \ {nullptr} :
       /\ close_calls[h] <= open_rets[h]
       /\ open_rets[h] - close_calls[h] = Holders(h)
       /\ (\A s \in UartSlots : uarts[s].life # "alive") => close_calls[h] = open_rets[h]
  /\ ~halted
  /\ uart_fault = "none"

\* every object is destroyed again, the last of them holding a handle, after
\* as many opens succeeded as a run allows, and each was closed
C28_Witness ==
  /\ \A s \in UartSlots : uarts[s].life = "none"
  /\ Total(open_rets, HandleValues) = MaxOpens
  /\ Total(close_calls, HandleValues) = MaxOpens
  /\ last.op = "dtor"
  /\ last.ret # nullptr

----------------------------------------------------------------------------
(* Writes through handles of every port.                                   *)

\* C29: a hal_uart_write given a buffer and a handle that open returned and
\* that has not been closed since, if it does not fail with an error code,
\* returns len, whichever in-range port the handle was opened for
C29_WriteReturnsLen ==
  [][(/\ last'.op = "uart_write"
      /\ last'.a \in issued
      /\ last'.b >= 0
      /\ ~halted'
      /\ last'.ret >= 0)
       => last'.ret = last'.b]_vars

----------------------------------------------------------------------------
(* The simulated and the POSIX GPIO backend side by side: each step makes  *)
(* the same call on both, on a pin in range for both.                      *)

\* the modes both backends have, by name
SharedModes == {"Input", "InputPullUp", "InputPullDown", "Output"}

\* the value of each backend's enumeration for a mode
MockMode(name) == CHOOSE m \in MockModeArgs : MockModeName(m) = name
HalMode(name) == CHOOSE m \in HalModeArgs : HalModeName(m) = name

SharedPins == {0, 1, MAX_GPIO_PINS - 1}

\* last.ret is what the simulated backend returned, last.out what POSIX returned
SideBySide_configure ==
  /\ backend = "mock+posix"
  /\ \E pin \in SharedPins, name \in SharedModes :
       LET m == v4_hal_gpio_init(mock_gpio, pin, MockMode(name))
           r == GpioBase_mode(PosixGpio, pin, HalMode(name))
       IN  /\ mock_gpio' = m.st
           /\ gpio_modes' = r.st.modes
           /\ gpio_states' = r.st.states
           /\ pin_cfg' = IF m.ret = 0 THEN [pin_cfg EXCEPT ![pin] = name] ELSE pin_cfg
           /\ last' = [op |-> "configure", a |-> pin, b |-> MockMode(name),
                       ret |-> m.ret, out |-> <<r.ret>>]
  /\ UNCHANGED <<restVars, backend, ctxVars, handleVars, mockUartVars, timerVars>>

SideBySide_write ==
  /\ backend = "mock+posix"
  /\ \E pin \in SharedPins, value \in HalValueArgs :
       LET m == v4_hal_gpio_write(mock_gpio, pin, value)
           r == GpioBase_write(PosixGpio, pin, value)
       IN  /\ mock_gpio' = m.st
           /\ gpio_modes' = r.st.modes
           /\ gpio_states' = r.st.states
           /\ last' = [op |-> "write", a |-> pin, b |-> value,
                       ret |-> m.ret, out |-> <<r.ret>>]
  /\ UNCHANGED <<restVars, backend, ctxVars, handleVars, pin_cfg, mockUartVars, timerVars>>

\* last.out is what POSIX returned, then the value each backend stored
\* through the pointer (the simulated backend's first), where it did
SideBySide_read ==
  /\ backend = "mock+posix"
  /\ \E pin \in SharedPins :
       LET m == v4_hal_gpio_read(mock_gpio, pin, TRUE)
           r == GpioBase_read(PosixGpio, pin, TRUE)
       IN  last' = [op |-> "read", a |-> pin, b |-> 0,
                    ret |-> m.ret, out |-> <<r.ret>> \o m.out \o r.out]
  /\ UNCHANGED <<restVars, backend, ctxVars, handleVars, gpioVars, mockUartVars, timerVars>>

InitSideBySide == backend = "mock+posix" /\ InitStatics

NextSideBySide ==
  \/ SideBySide_configure
  \/ SideBySide_write
  \/ SideBySide_read

SpecSideBySide == InitSideBySide /\ [][NextSideBySide]_vars

\* C30: run side by side from their initial states over every sequence of
\* configure, write and read calls on in-range pins, the simulated and the
\* POSIX backend succeed at the same steps and fail at the same steps, and a
\* read that succeeds on both returns the same value on both
C30_PosixMatchesMock ==
  [][last'.op \in {"configure", "write", "read"} =>
       /\ (last'.ret = 0) <=> (last'.out[1] = HAL_OK)
       /\ (last'.op = "read" /\ last'.ret = 0 /\ last'.out[1] = HAL_OK) =>
            last'.out[2] = last'.out[3]]_vars

----------------------------------------------------------------------------
(* High values and modes, checked under SpecGpio.                          *)

\* C31: in every reachable state a pin whose value is High has been
\* configured and its mode is Output; a pin never configured, or configured
\* in another mode, has value Low
C31_HighOnlyOnOutput ==
  \A p \in Pins : PinValue(p) = 1 => pin_cfg[p] = "Output"

----------------------------------------------------------------------------
(* The receive cursor, checked under SpecMockUartRx.                       *)

\* C32: over every sequence of uart_init, injection (of any length from 0),
\* getc, read and reset, every port has 0 <= rx_pos <= rx_count <=
\* UART_BUFFER_SIZE, and the bytes getc and read have handed out since the
\* last injection are the leading bytes of what was injected
C32_RxCursorInBounds ==
  \A p \in MockPorts :
    LET ps == mock_uart[p]
    IN  /\ 0 <= ps.rx_pos
        /\ ps.rx_pos <= ps.rx_count
        /\ ps.rx_count <= UART_BUFFER_SIZE
        /\ Len(rx_delivered[p]) <= Len(rx_injected[p])
        /\ rx_delivered[p] = Take(rx_injected[p], Len(rx_delivered[p]))

\* more bytes than the buffer holds were injected, a getc took the first and
\* a read took all the rest: the cursor stands at the end of a full buffer
C32_Witness ==
  /\ last.op = "read"
  /\ last.a \in MockPorts
  /\ last.ret = 0
  /\ rx_pops >= 2
  /\ mock_uart[last.a].rx_count = UART_BUFFER_SIZE
  /\ mock_uart[last.a].rx_pos = UART_BUFFER_SIZE
  /\ Len(rx_delivered[last.a]) = UART_BUFFER_SIZE

----------------------------------------------------------------------------
(* Injection, checked under SpecMockUartRx.                                *)

\* the bytes handed to the injection of len bytes
InjectedData(len) == (CHOOSE d \in InjectArgs : d.len = len).data

\* the bytes of port state ps that getc and read have yet to hand out
PendingRx(ps) == [i \in 1 .. (ps.rx_count - ps.rx_pos) |-> ps.rx_buffer[ps.rx_pos + i - 1]]

\* C33: after an injection of len bytes into an in-range port, opened or not,
\* the cursor is 0 and the pending receive data is exactly the first
\* min(len, UART_BUFFER_SIZE) bytes handed in, whatever was pending before;
\* a later successful open of the port leaves nothing pending
C33_InjectReplaces ==
  [][/\ (last'.op = "inject" /\ last'.a \in MockPorts) =>
          LET ps == mock_uart'[last'.a]
              n == Min(last'.b, UART_BUFFER_SIZE)
          IN  /\ ps.rx_pos = 0
              /\ ps.rx_count = n
              /\ PendingRx(ps) = Take(InjectedData(last'.b), n)
              /\ ps.initialized = mock_uart[last'.a].initialized
     /\ (last'.op = "uart_init" /\ last'.ret = 0) =>
          PendingRx(mock_uart'[last'.a]) = <<>>]_vars

\* two bytes were injected into an opened port that had been given "Hello"
\* before and had handed out at least one byte
C33_Witness ==
  /\ last.op = "inject"
  /\ last.a \in MockPorts
  /\ last.b = 2
  /\ rx_pops >= 1
  /\ mock_uart[last.a].initialized = 1
  /\ mock_uart[last.a].rx_buffer[2] = Hello[3]
  /\ PendingRx(mock_uart[last.a]) = Hi

----------------------------------------------------------------------------
(* Writes and the remaining capacity, checked under SpecMockUartTx.        *)

\* the (buf, len) pairs with a buffer and a length of 0 or more
ValidWriteArgs == {w \in WriteArgs : w.has_buf /\ w.len >= 0}

\* C34: in every reachable state, a write with valid arguments on an opened
\* port succeeds exactly when tx_count + len <= UART_BUFFER_SIZE; when it
\* succeeds (a write that exactly fills the room included) it enqueues all
\* its bytes behind those already there and changes nothing else; a write of
\* length 0 succeeds and changes nothing, on a full buffer too
C34_WriteFitsIffRoom ==
  \A p \in MockPorts, w \in ValidWriteArgs :
    mock_uart[p].initialized = 1 =>
      LET before == mock_uart[p]
          r == v4_hal_uart_write(mock_uart, p, w.has_buf, w.buf, w.len)
      IN  /\ (r.ret = 0) <=> (before.tx_count + w.len <= UART_BUFFER_SIZE)
          /\ r.ret # 0 => r.ret = Busy
          /\ r.ret = 0 =>
               /\ r.st[p].tx_count = before.tx_count + w.len
               /\ \A i \in 0 .. (UART_BUFFER_SIZE - 1) :
                    r.st[p].tx_buffer[i] =
                      IF i >= before.tx_count /\ i < before.tx_count + w.len
                        THEN w.buf[i - before.tx_count + 1]
                        ELSE before.tx_buffer[i]
               /\ r.st = [mock_uart EXCEPT ![p].tx_buffer = r.st[p].tx_buffer,
                                           ![p].tx_count = r.st[p].tx_count]
          /\ w.len = 0 => (r.ret = 0 /\ r.st = mock_uart)

\* a putc and a write of UART_BUFFER_SIZE - 1 bytes filled the buffer exactly,
\* and a write of length 0 on the full buffer has then succeeded
C34_Witness ==
  /\ last.op = "write"
  /\ last.a \in MockPorts
  /\ last.b = 0
  /\ last.ret = 0
  /\ mock_uart[last.a].tx_count = UART_BUFFER_SIZE
  /\ mock_uart[last.a].tx_buffer[0] = 65
  /\ tx_accepted[last.a] = <<65>> \o Fill(UART_BUFFER_SIZE - 1)

----------------------------------------------------------------------------
(* The TX buffer is never drained, checked under SpecMockUartTx.           *)

\* C35: a port's tx_count goes down only by a successful uart_init of that
\* port or by a reset; so a putc, or a write of at least one byte, on an
\* opened port whose tx_count is UART_BUFFER_SIZE returns Busy and leaves
\* tx_count at UART_BUFFER_SIZE, call after call
C35_TxNeverDrained ==
  [][\A p \in MockPorts :
       /\ mock_uart'[p].tx_count < mock_uart[p].tx_count =>
            \/ last'.op = "reset"
            \/ last'.op = "uart_init" /\ last'.a = p /\ last'.ret = 0
       /\ (/\ last'.op \in {"putc", "write"}
           /\ last'.a = p
           /\ last'.b >= 1
           /\ mock_uart[p].initialized = 1
           /\ mock_uart[p].tx_count = UART_BUFFER_SIZE) =>
            /\ last'.ret = Busy
            /\ mock_uart'[p].tx_count = UART_BUFFER_SIZE]_vars

\* a putc was refused with Busy on a buffer that an earlier call had already
\* found full: nothing has been enqueued since the two calls that filled it
C35_Witness ==
  /\ last.op = "putc"
  /\ last.a \in MockPorts
  /\ last.ret = Busy
  /\ tx_appends = MaxTxAppends
  /\ mock_uart[last.a].tx_count = UART_BUFFER_SIZE
  /\ Len(tx_accepted[last.a]) = UART_BUFFER_SIZE

----------------------------------------------------------------------------
(* The two counters as one clock, checked under SpecClock.                 *)

\* the remainder of the digits of x above digit i, divided by k < 2^15
RECURSIVE RemAbove(_, _, _)
RemAbove(x, k, i) ==
  IF i = Len(x) THEN 0 ELSE (RemAbove(x, k, i + 1) * Base + x[i + 1]) % k

\* floor(x / k) for an unsigned x of any width and k < 2^15, by long division
FloorDiv(x, k) == [i \in 1 .. Len(x) |-> (RemAbove(x, k, i) * Base + x[i]) \div k]

\* C36: on the simulated backend, from the start state and over every
\* sequence of delay_ms and delay_us calls, millis() equals
\* floor(micros() / 1000) mod 2^32
C36_CountersOneClock ==
  backend = "mock" =>
    mock_millis_counter = SubSeq(FloorDiv(mock_micros_counter, 1000), 1, 2)

----------------------------------------------------------------------------
(* One call and what it leaves alone.  A run starts in a state the calls   *)
(* named below have produced from the start state and makes one GPIO or    *)
(* UART call.                                                              *)

\* hal_gpio_mode(0, OUTPUT); hal_gpio_mode(31, OUTPUT); hal_gpio_write(31, HIGH)
PosixGpioUsed ==
  GpioBase_write(
    GpioBase_mode(
      GpioBase_mode([modes |-> BitmapZero, states |-> BitmapZero], 0, HAL_GPIO_OUTPUT).st,
      max_gpio_pins - 1, HAL_GPIO_OUTPUT).st,
    max_gpio_pins - 1, HAL_GPIO_HIGH).st

\* the calls of UartUsed on port 0, then v4_hal_uart_init(3, 9600);
\* mock_hal_uart_inject_rx(3, "Hi", 2)
UartTwoPortsUsed ==
  mock_hal_uart_inject_rx(
    v4_hal_uart_init(UartUsed, MAX_UART_PORTS - 1, 9600).st,
    MAX_UART_PORTS - 1, Hi, 2)

UartFrameScenes ==
  UartScenes \cup
    {[uart |-> UartTwoPortsUsed,
      accepted |-> [NoBytes EXCEPT ![0] = <<65>>],
      injected |-> [NoBytes EXCEPT ![0] = Hello, ![MAX_UART_PORTS - 1] = Hi],
      delivered |-> [NoBytes EXCEPT ![0] = <<Hello[1]>>],
      appends |-> 1, pops |-> 1]}

InitFrame ==
  /\ backend \in {"mock", "posix"}
  /\ uarts = NoUarts
  /\ open_rets = NoHandleCalls
  /\ close_calls = NoHandleCalls
  /\ IF backend = "mock"
       THEN /\ \E g \in GpioScenes : mock_gpio = g.gpio /\ pin_cfg = g.cfg
            /\ gpio_states = BitmapZero
            /\ gpio_modes = BitmapZero
            /\ \E u \in UartFrameScenes :
                 /\ mock_uart = u.uart
                 /\ tx_accepted = u.accepted
                 /\ rx_injected = u.injected
                 /\ rx_delivered = u.delivered
                 /\ tx_appends = u.appends
                 /\ rx_pops = u.pops
            /\ \E c \in TimerScenes :
                 /\ mock_millis_counter = c.t.millis
                 /\ mock_micros_counter = c.t.micros
                 /\ delays = c.n
       ELSE /\ mock_gpio = MockGpioZero
            /\ \/ /\ gpio_modes = BitmapZero
                  /\ gpio_states = BitmapZero
                  /\ pin_cfg = NoPinCfg
               \/ /\ gpio_modes = PosixGpioUsed.modes
                  /\ gpio_states = PosixGpioUsed.states
                  /\ pin_cfg = [NoPinCfg EXCEPT ![0] = HalModeName(HAL_GPIO_OUTPUT),
                                                ![max_gpio_pins - 1] =
                                                  HalModeName(HAL_GPIO_OUTPUT)]
            /\ mock_uart = MockUartZero
            /\ tx_accepted = NoBytes
            /\ rx_injected = NoBytes
            /\ rx_delivered = NoBytes
            /\ tx_appends = 0
            /\ rx_pops = 0
            /\ mock_millis_counter = Zero32
            /\ mock_micros_counter = Zero64
            /\ delays = 0
  /\ esp_timer = 0
  /\ posix_clock = Zero64
  /\ critical_mutex = "none"
  /\ critical_spinlock = portMUX_INITIALIZER_UNLOCKED
  /\ pc = [t \in Threads |-> "idle"]
  /\ tog = [t \in Threads |-> NoToggle]
  /\ uart_heap = HeapEmpty
  /\ uart_init_flags = FlagsClear
  /\ issued = {}
  /\ closed_ok = {}
  /\ stale = FALSE
  /\ uart_fault = "none"
  /\ halted = FALSE
  /\ last = NoCall

\* no call has been made yet in this run
FirstCall == last = NoCall

NextFrame ==
  \/ FirstCall /\ Call_gpio_init
  \/ FirstCall /\ Call_gpio_write
  \/ FirstCall /\ Call_gpio_read
  \/ FirstCall /\ hal_gpio_mode
  \/ FirstCall /\ hal_gpio_write
  \/ FirstCall /\ hal_gpio_read
  \/ FirstCall /\ hal_gpio_toggle
  \/ FirstCall /\ Call_uart_init
  \/ FirstCall /\ Call_uart_putc
  \/ FirstCall /\ Call_uart_write
  \/ FirstCall /\ Call_uart_inject_rx
  \/ FirstCall /\ Call_uart_getc
  \/ FirstCall /\ Call_uart_read

SpecFrame == InitFrame /\ [][NextFrame]_vars

\* C37: a GPIO call on pin p, successful or not, leaves mode, value and
\* initialized flag of every other pin as they were; a UART call or an
\* injection on port a leaves every other port as it was; and neither kind of
\* call changes the clock.  (last.a is the pin of a GPIO call and the port of
\* a UART call.)
C37_OthersUntouched ==
  [][last'.op \in {"configure", "write", "read", "toggle",
                   "uart_init", "putc", "getc", "inject"} =>
       /\ \A q \in MockPins \ {last'.a} :
            /\ mock_gpio'[q] = mock_gpio[q]
            /\ gpio_modes'[q] = gpio_modes[q]
            /\ gpio_states'[q] = gpio_states[q]
       /\ \A b \in MockPorts \ {last'.a} : mock_uart'[b] = mock_uart[b]
       /\ mock_millis_counter' = mock_millis_counter
       /\ mock_micros_counter' = mock_micros_counter
       /\ esp_timer' = esp_timer]_vars

\* pin 0 has just been configured on the simulated backend while pin 31 was
\* configured, the last port held injected bytes and the clock had advanced:
\* all three are as they were
C37_Witness ==
  /\ backend = "mock"
  /\ last.op = "configure"
  /\ last.a = 0
  /\ last.ret = 0
  /\ mock_gpio[0].mode = V4_HAL_GPIO_MODE_INPUT_PULLDOWN
  /\ mock_gpio[MAX_GPIO_PINS - 1] = GpioUsed[MAX_GPIO_PINS - 1]
  /\ mock_gpio[MAX_GPIO_PINS - 1].initialized = 1
  /\ mock_uart[MAX_UART_PORTS - 1].rx_count = 2
  /\ mock_millis_counter # Zero32

----------------------------------------------------------------------------
(* The capability descriptor against the range checks, under SpecCaps.     *)

\* Esp32Platform::max_gpio_pins()
esp32_max_gpio_pins == 48

\* the range check of GpioBase<Platform>::mode, negated
GpioBase_InRange(be, pin) ==
  ~(pin < 0 \/ pin >= (IF be = "posix" THEN max_gpio_pins ELSE esp32_max_gpio_pins))

\* the range check of UartBase<Platform>::open, negated
UartBase_InRange(be, port) ==
  ~(port < 0 \/ port >= (IF be = "posix" THEN posix_max_uart_ports ELSE esp32_max_uart_ports))

ProbePins == {-1, 0, max_gpio_pins - 1, max_gpio_pins, esp32_max_gpio_pins - 1,
              esp32_max_gpio_pins}
ProbePorts == {-1, 0, esp32_max_uart_ports - 1, esp32_max_uart_ports, posix_max_uart_ports}

\* C38: on the POSIX and the ESP32 backend, configure(p, mode) passes the
\* range check exactly when 0 <= p < get_capabilities().gpio_count, and
\* open(port, config) passes it exactly when 0 <= port <
\* get_capabilities().uart_count
C38_CapsMatchBounds ==
  backend \in {"posix", "esp32"} =>
    LET caps == hal_platform_capabilities.caps
    IN  /\ \A pin \in ProbePins :
             GpioBase_InRange(backend, pin) <=> (0 <= pin /\ pin < caps.gpio_count)
        /\ \A port \in ProbePorts :
             UartBase_InRange(backend, port) <=> (0 <= port /\ port < caps.uart_count)

----------------------------------------------------------------------------
(* Two threads of the POSIX backend, each running enter; <body>; exit over *)
(* and over.  A thread at "idle" has called hal_critical_enter or is about *)
(* to: the call returns once pthread_mutex_lock has the mutex.  The        *)
(* scheduler lets a thread run that can run all the time; which of the     *)
(* threads waiting for a mutex gets it, pthread_mutex_unlock leaves open.  *)

NextMutex ==
  \/ main_gpio_mode
  \/ hal_critical_enter("main")
  \/ guarded_gpio_write("main")
  \/ hal_critical_exit("main")
  \/ hal_critical_enter("second")
  \/ guarded_gpio_write("second")
  \/ hal_critical_exit("second")

SpecMutex ==
  /\ InitPosix
  /\ [][NextMutex]_vars
  /\ \A t \in Threads : WF_vars(hal_critical_enter(t)) /\ WF_vars(hal_critical_exit(t))

\* at most one thread is between its enter and its exit, and it holds the mutex
MutualExclusion ==
  /\ Cardinality({t \in Threads : pc[t] = "in_critical"}) <= 1
  /\ \A t \in Threads : pc[t] = "in_critical" => critical_mutex = t

\* C39 as stated: at most one thread is between its enter and its exit at any
\* time, and every thread that calls enter eventually gets in
C39_ExclusionAndEveryThreadEnters ==
  /\ []MutualExclusion
  /\ \A t \in Threads : (pc[t] = "idle") ~> (pc[t] = "in_critical")

\* C39 amended: at most one thread is between its enter and its exit at any
\* time, and whenever a thread calls enter, eventually some thread is inside
\* (a thread may be overtaken by the other one time after time)
C39_ExclusionAndSomeThreadEnters ==
  /\ []MutualExclusion
  /\ (\E t \in Threads : pc[t] = "idle") ~> (\E t \in Threads : pc[t] = "in_critical")

\* the second thread is inside and has written a pin while the main thread
\* waits at its enter
C39_Witness ==
  /\ pc["second"] = "in_critical"
  /\ pc["main"] = "idle"
  /\ critical_mutex = "second"
  /\ last.op = "write"
  /\ last.ret = HAL_OK

----------------------------------------------------------------------------
(* Delays of the POSIX backend (ports/posix/platform_posix.cpp).  The      *)
(* clock is CLOCK_MONOTONIC minus start_time, kept in whole microseconds.  *)

\* what usleep may leave in the clock: the thread is suspended for at least
\* usec microseconds, the scheduler may add to it
SleepOvershoot == {0, 1}
usleep(clock, usec) ==
  {AddN(AddN(clock, Ext(usec, Len(clock)), Len(clock)),
        Ext(U32(extra), Len(clock)), Len(clock)) : extra \in SleepOvershoot}

\* usleep(ms * 1000): the argument of usleep, a product of two 32-bit
\* unsigned operands
PosixPlatform_delay_ms_impl(ms) == MulN(ms, 1000, Len(ms))

\* usleep(us)
PosixPlatform_delay_us_impl(us) == us

\* static_cast<uint32_t>((get_time_ns() - start_time) / 1000000)
PosixPlatform_millis_impl(clock) == SubSeq(FloorDiv(clock, 1000), 1, Len(Zero32))

\* (get_time_ns() - start_time) / 1000
PosixPlatform_micros_impl(clock) == clock

posix_delay_ms ==
  /\ backend = "posix"
  /\ delays < MaxDelays
  /\ \E ms \in MsArgs :
       /\ posix_clock' \in usleep(posix_clock, PosixPlatform_delay_ms_impl(ms))
       /\ last' = [op |-> "delay_ms", a |-> ms, b |-> 0, ret |-> 0,
                   out |-> <<PosixPlatform_delay_ms_impl(ms)>>]
  /\ delays' = delays + 1
  /\ UNCHANGED <<backend, gpioVars, mockUartVars, ctxVars, handleVars,
                 scopeVars, mockTimerVars, esp_timer>>

posix_delay_us ==
  /\ backend = "posix"
  /\ delays < MaxDelays
  /\ \E us \in UsArgs :
       /\ posix_clock' \in usleep(posix_clock, PosixPlatform_delay_us_impl(us))
       /\ last' = [op |-> "delay_us", a |-> us, b |-> 0, ret |-> 0,
                   out |-> <<PosixPlatform_delay_us_impl(us)>>]
  /\ delays' = delays + 1
  /\ UNCHANGED <<backend, gpioVars, mockUartVars, ctxVars, handleVars,
                 scopeVars, mockTimerVars, esp_timer>>

posix_millis ==
  /\ backend = "posix"
  /\ last' = [op |-> "millis", a |-> 0, b |-> 0, ret |-> 0,
              out |-> <<PosixPlatform_millis_impl(posix_clock)>>]
  /\ UNCHANGED <<notTimerVars, timerVars>>

posix_micros ==
  /\ backend = "posix"
  /\ last' = [op |-> "micros", a |-> 0, b |-> 0, ret |-> 0,
              out |-> <<PosixPlatform_micros_impl(posix_clock)>>]
  /\ UNCHANGED <<notTimerVars, timerVars>>

NextPosixSleep ==
  \/ posix_delay_ms
  \/ posix_delay_us
  \/ posix_millis
  \/ posix_micros

SpecPosixSleep == InitPosix /\ [][NextPosixSleep]_vars

\* C40: on the POSIX backend the microsecond amount that delay_ms(ms) hands
\* to the sleep call equals 1000 * ms as an unbounded number, and the clock
\* is at least that much later when the call returns, for every 32-bit ms
C40_SleepIsThousandTimesMs ==
  [][(backend = "posix" /\ delays' = delays + 1 /\ last'.op = "delay_ms") =>
       /\ Ext(last'.out[1], Wide) = Times1000(last'.a)
       /\ ~Less(Ext(posix_clock', Wide),
                AddN(Ext(posix_clock, Wide), Times1000(last'.a), Wide))]_vars

====
